---- MODULE Spec2Model ----
(***************************************************************************)
(* Processing-state and conversion-safety engine of the video converter    *)
(* daemon (video_converter_daemon.py, sftp_ops.py).                        *)
(*                                                                         *)
(* Threads: thread 0 is the coordinating (main) thread; threads 1..n are   *)
(* the jobs submitted to the worker pool by process_batch.                 *)
(***************************************************************************)
EXTENDS Integers, Sequences, FiniteSets, TLC

(***************************************************************************)
(* Bounds of the model.                                                    *)
(***************************************************************************)
MaxClock == 1
MaxObjectLen == 2
MaxBoots == 2
MaxBatches == 2
MaxBatchLen == 2
MaxWorkers == 2
MaxPathLen == 5
MaxCycles == 2
MaxOverrides == 1
MaxRuns == 2

(***************************************************************************)
(* Identities.  The loader's pattern is ^[a-f0-9]{64}$ used with re.match. *)
(* Strings that are matched against it are sequences of characters.        *)
(***************************************************************************)
HASH_LEN == 64

HexDigits ==
    {"0", "1", "2", "3", "4", "5", "6", "7", "8", "9", "a", "b", "c", "d", "e", "f"}

Rep(c, n) == [i \in 1..n |-> c]

\* re.match(r'^[a-f0-9]{64}$', s): in Python '$' matches at the end of the
\* string and also just before a newline that ends the string.
HashReMatch(s) ==
    /\ Len(s) >= HASH_LEN
    /\ \A i \in 1..HASH_LEN : s[i] \in HexDigits
    /\ \/ Len(s) = HASH_LEN
       \/ Len(s) = HASH_LEN + 1 /\ s[HASH_LEN + 1] = "\n"

\* Strings used as ledger keys or array items in the stored files explored.
HA == Rep("a", HASH_LEN)
HB == Rep("b", HASH_LEN)
KeyShort == Rep("a", HASH_LEN - 1)
KeyNewline == HA \o <<"\n">>
StoredKeys == {HA, HB, KeyShort, KeyNewline}

\* "Exactly 64 lowercase hex characters": the identity pattern of the data model.
IsIdentity(s) ==
    /\ Len(s) = HASH_LEN
    /\ \A i \in 1..HASH_LEN : s[i] \in HexDigits

(***************************************************************************)
(* Python values and JSON documents.  json.load / json.dump convert        *)
(* between the two; both are tagged so that the conversion is explicit.    *)
(***************************************************************************)
PyInt(n) == [py |-> "int", n |-> n]
PyBool(b) == [py |-> "bool", b |-> b]
PyStr(s) == [py |-> "str", s |-> s]
PyNone == [py |-> "none"]
PyDict(d) == [py |-> "dict", d |-> d]

JNumber(n) == [t |-> "number", n |-> n]
JString(s) == [t |-> "string", s |-> s]
JTrue == [t |-> "true"]
JFalse == [t |-> "false"]
JNull == [t |-> "null"]
JArray(items) == [t |-> "array", items |-> items]
JObject(members) == [t |-> "object", members |-> members]
Member(k, v) == [k |-> k, v |-> v]

\* Field order used when a metadata dict is written (dict insertion order of
\* the literals at lines 916-920 and 1022-1025).
FieldOrder == <<"timestamp", "duration_seconds", "dry_run">>

FieldSeq(d) == SelectSeq(FieldOrder, LAMBDA f : f \in DOMAIN d)

\* json.load: decoding of a scalar JSON value.
JsonScalarToPy(j) ==
    CASE j.t = "number" -> PyInt(j.n)
      [] j.t = "string" -> PyStr(j.s)
      [] j.t = "true" -> PyBool(TRUE)
      [] j.t = "false" -> PyBool(FALSE)
      [] OTHER -> PyNone

\* json.load: decoding of the value stored under a ledger key (a metadata
\* object of scalars, or a scalar).
JsonToPy(j) ==
    IF j.t = "object"
    THEN PyDict([f \in {j.members[i].k : i \in DOMAIN j.members} |->
                  LET i == CHOOSE n \in DOMAIN j.members :
                             /\ j.members[n].k = f
                             /\ \A m \in DOMAIN j.members :
                                    j.members[m].k = f => m <= n
                  IN JsonScalarToPy(j.members[i].v)])
    ELSE JsonScalarToPy(j)

\* json.dump: encoding of a scalar Python value.
PyScalarToJson(v) ==
    CASE v.py = "int" -> JNumber(v.n)
      [] v.py = "str" -> JString(v.s)
      [] v.py = "bool" -> (IF v.b THEN JTrue ELSE JFalse)
      [] OTHER -> JNull

\* json.dump: encoding of a ledger entry.
PyToJson(v) ==
    IF v.py = "dict"
    THEN JObject([i \in DOMAIN FieldSeq(v.d) |->
                    Member(FieldSeq(v.d)[i], PyScalarToJson(v.d[FieldSeq(v.d)[i]]))])
    ELSE PyScalarToJson(v)

(***************************************************************************)
(* Content of a file of the state directory.                               *)
(***************************************************************************)
Absent == [kind |-> "absent"]
Unreadable == [kind |-> "unreadable"]
Malformed == [kind |-> "malformed"]
Document(j) == [kind |-> "json", doc |-> j]

(***************************************************************************)
(* Paths.  A path is a stem and an extension below one configured root.    *)
(***************************************************************************)
Path(stem, ext) == [stem |-> stem, ext |-> ext]
PathA == Path("a", "mkv")
PathB == Path("b", "mkv")
CandidatePaths == {PathA, PathB}
\* A sibling of PathA: same directory and stem, another extension.
PathAmp4 == Path("a", "mp4")

\* Path.with_suffix('.m4v') / posixpath.splitext(p)[0] + '.m4v'
with_suffix(p, ext) == [stem |-> p.stem, ext |-> ext]

\* hashlib.sha256(path.encode()).hexdigest(): 64 lowercase hex characters,
\* a function of the path string only, distinct for the paths explored.
get_file_hash(p) ==
    CASE p = PathA -> HA
      [] p = PathB -> HB
      [] p = with_suffix(PathA, "m4v") -> Rep("c", HASH_LEN)
      [] OTHER -> Rep("d", HASH_LEN)

(***************************************************************************)
(* Sizes are kept as (GiB, remaining bytes) pairs: MAX_FILE_SIZE_BYTES is  *)
(* 100 * 1024^3.                                                           *)
(***************************************************************************)
MAX_FILE_SIZE_GIB == 100

\* MAX_DISCOVERED_FILES is 10000 in the source; the cap is scaled down so
\* that a scan of the name spaces explored can exceed it.
MAX_DISCOVERED_FILES == 2
Size(g, r) == [gib |-> g, rem |-> r]
FileSizes == {Size(0, 0), Size(0, 1), Size(MAX_FILE_SIZE_GIB, 1)}
Missing == [gib |-> -1, rem |-> 0]
OutputSize == Size(0, 1)

OutputPaths == {[stem |-> q.stem, ext |-> "m4v"] : q \in CandidatePaths}
AllPaths == CandidatePaths \cup OutputPaths \cup {PathAmp4}

Threads == 0..MaxBatchLen
Jobs == 1..MaxBatchLen

VARIABLES
    remote_mode,        \* config: remote.enabled
    dry_run,            \* self.dry_run
    keep_original,      \* config: processing.keep_original
    max_workers,        \* config: daemon.max_workers
    processed_files,    \* self.processed_files
    conversion_times,   \* self.conversion_times
    converting,         \* self.converting
    processed_lock,     \* self._processed_lock: 0 when free, else the holder + 1
    db_file,            \* <state_dir>/processed.json
    tmp_file,           \* <state_dir>/processed.json.tmp
    clock,              \* int(time.time())
    pc,                 \* position of every thread
    fs,                 \* watched tree: path -> size, or Missing
    work,               \* temporary files in work_dir
    job,                \* per pool job: candidate, start time, pending result
    stop_outputs,       \* sources whose output was at its final path at the last stop
    batches,            \* number of process_batch calls so far
    boots,              \* number of times the daemon was constructed
    save_data,          \* document built by the save in progress (local to it)
    saved_ledger,       \* in-memory ledger at the last completed save
    call,               \* the last call of a function examined on its own
    directories,        \* config: directories (remote.directories in remote mode)
    resolved_allowed_dirs,  \* self._resolved_allowed_dirs
    tree,               \* name space of the scanned file system: name -> node
    running,            \* self.running
    run_pc,             \* position of run()
    cycles,             \* number of cycles run() has started
    discovery_cache,    \* self._discovery_cache
    discoveries,        \* number of discover_videos calls made by run()
    sleep_elapsed,      \* sleep_elapsed of run()
    slept,              \* duration of the last time.sleep() of run()
    channel_timeout,    \* timeout of the channel of the shared SFTP connection
    xfer,               \* per pool job: position in its transfers and their outcome
    remote_files,       \* per pool job: content at its remote final and temporary path
    ssh_handle,         \* SFTPConnection._ssh: "none" or "client"
    sftp_handle,        \* SFTPConnection._sftp: "none" or "client"
    conn_lock,          \* SFTPConnection._lock: 0 when free, else the holder + 1
    converting_lock,    \* self._converting_lock: 0 when free, else the holder + 1
    handler_pc          \* position of handle_shutdown on the main thread

vars == <<remote_mode, dry_run, keep_original, max_workers, processed_files,
          conversion_times, converting, processed_lock, db_file, tmp_file,
          clock, pc, fs, work, job, stop_outputs, batches, boots,
          save_data, saved_ledger, call, directories, resolved_allowed_dirs, tree,
          running, run_pc, cycles, discovery_cache, discoveries, sleep_elapsed, slept,
          channel_timeout, xfer, remote_files,
          ssh_handle, sftp_handle, conn_lock, converting_lock, handler_pc>>

configVars == <<remote_mode, dry_run, keep_original, max_workers>>
ledgerVars == <<processed_files, conversion_times>>
diskVars == <<db_file, tmp_file, save_data, saved_ledger>>
pipeVars == <<converting, fs, work, job, stop_outputs, batches>>
runVars == <<running, run_pc, cycles, discovery_cache, discoveries, sleep_elapsed, slept>>
connVars == <<ssh_handle, sftp_handle, conn_lock, converting_lock, handler_pc>>
sftpVars == <<channel_timeout, xfer, remote_files, connVars>>
callVars == <<call, directories, resolved_allowed_dirs, tree, runVars, sftpVars>>

\* No function has been called on its own yet.
NoCall == [fn |-> "none", args |-> <<>>, result |-> "none"]
Called(fn, args, result) == [fn |-> fn, args |-> args, result |-> result]

\* __init__, lines 130 and 158-159, and run() not called.
InitRun ==
    /\ running = TRUE
    /\ run_pc = "none"
    /\ cycles = 0
    /\ discovery_cache = <<>>
    /\ discoveries = 0
    /\ sleep_elapsed = 0
    /\ slept = 0

\* The channel timeout is None (paramiko's channel blocks without limit) or
\* a number of seconds.
NoTimeout == <<>>
Seconds(n) == <<n>>

NoTransfer ==
    [pc |-> "idle", op |-> "none", raised |-> "none", remove_attempted |-> FALSE,
     before |-> "absent"]

\* sftp_ops.py lines 97-99 and daemon lines 143-144: no connection has been
\* made, every lock is free, no signal is being handled.
InitConn ==
    /\ ssh_handle = "none"
    /\ sftp_handle = "none"
    /\ conn_lock = 0
    /\ converting_lock = 0
    /\ handler_pc = "none"

\* No transfer has been started and nothing is at the remote output paths.
InitSftp ==
    /\ channel_timeout = NoTimeout
    /\ xfer = [j \in Jobs |-> NoTransfer]
    /\ remote_files = [j \in Jobs |-> [final |-> "absent", tmp |-> "absent"]]
    /\ InitConn

\* The name space is examined in the specifications of the path validators
\* and of discovery; elsewhere it is empty.
NoTree == [n \in {} |-> [kind |-> "missing"]]

EmptyDict == [x \in {} |-> PyNone]
DictSet(d, k, v) == [x \in DOMAIN d \cup {k} |-> IF x = k THEN v ELSE d[x]]

(***************************************************************************)
(* load_processed_files                                                    *)
(***************************************************************************)
\* line 440: isinstance(metadata, dict) and
\*           isinstance(metadata.get('timestamp'), (int, float))
IsTimingMetadata(metadata) ==
    /\ metadata.py = "dict"
    /\ "timestamp" \in DOMAIN metadata.d
    /\ metadata.d["timestamp"].py \in {"int", "bool"}

\* line 446: isinstance(item, str) and re.match(...)
IsValidItem(item) == item.t = "string" /\ HashReMatch(item.s)

\* Index of the first member whose key fails the check of line 436, or 0.
FirstInvalidKey(members) ==
    IF \A i \in DOMAIN members : HashReMatch(members[i].k)
    THEN 0
    ELSE CHOOSE i \in DOMAIN members :
            /\ ~HashReMatch(members[i].k)
            /\ \A j \in 1..(i - 1) : HashReMatch(members[j].k)

\* conversion_times after the loop of lines 435-441 has visited members 1..n.
RECURSIVE Harvest(_, _, _)
Harvest(members, n, times) ==
    IF n = 0
    THEN times
    ELSE LET before == Harvest(members, n - 1, times)
             metadata == JsonToPy(members[n].v)
         IN IF IsTimingMetadata(metadata)
            THEN DictSet(before, members[n].k, metadata)
            ELSE before

Returned(hashes, times) == [raised |-> FALSE, hashes |-> hashes, times |-> times]
Raised(times) == [raised |-> TRUE, hashes |-> {}, times |-> times]

\* load_processed_files(): the returned set, the side effect on
\* conversion_times, or the exception of open() / json.load().
load_processed_files(file, times) ==
    CASE file.kind = "absent" -> Returned({}, times)
      [] file.kind \in {"unreadable", "malformed"} -> Raised(times)
      [] OTHER ->
           LET data == file.doc IN
           CASE data.t = "object" ->
                  LET bad == FirstInvalidKey(data.members) IN
                  IF bad = 0
                  THEN Returned({data.members[i].k : i \in DOMAIN data.members},
                                Harvest(data.members, Len(data.members), times))
                  ELSE Returned({}, Harvest(data.members, bad - 1, times))
             [] data.t = "array" ->
                  IF \A i \in DOMAIN data.items : IsValidItem(data.items[i])
                  THEN Returned({data.items[i].s : i \in DOMAIN data.items}, times)
                  ELSE Returned({}, times)
             [] OTHER -> Returned({}, times)

(***************************************************************************)
(* save_processed_files                                                    *)
(***************************************************************************)
\* Mutation of SavedEntry: every entry is written as a bare timestamp.
SavedEntry_TimestampOnly(file_hash, times, now) ==
    PyDict([f \in {"timestamp"} |-> PyInt(now)])

\* lines 464-470: the entry written for one identity.
SavedEntry(file_hash, times, now) ==
    IF file_hash \in DOMAIN times
    THEN times[file_hash]
    ELSE PyDict([f \in {"timestamp"} |-> PyInt(now)])

\* All orders in which the set can be iterated.
Orders(S) ==
    {o \in [1..Cardinality(S) -> S] : \A i, j \in DOMAIN o : o[i] = o[j] => i = j}

\* Mutation of DumpLedger: the save keeps the legacy shape, a flat array.
DumpLedger_LegacyShape(o, times, now) ==
    JArray([i \in DOMAIN o |-> JString(o[i])])

\* json.dump(data): the document written for the in-memory ledger, with the
\* keys in the iteration order o of the set.
DumpLedger(o, times, now) ==
    JObject([i \in DOMAIN o |-> Member(o[i], PyToJson(SavedEntry(o[i], times, now)))])

\* Mutation of UnlinkTmp: the except-clause does not remove the file.
UnlinkTmp_Skipped(tmp) == tmp

\* except-clause of save_processed_files: tmp_file.unlink(missing_ok=True)
UnlinkTmp(tmp) == Absent

NoLedger == [boot |-> 0, files |-> {}, times |-> EmptyDict]

\* Mutation of SaveOpen: the save does not wait for the lock.
SaveOpen_Unlocked(t) ==
    /\ pc[t] = "save_open"
    /\ \/ /\ \E o \in Orders(processed_files) :
                save_data' = Document(DumpLedger(o, conversion_times, clock))
          /\ tmp_file' = Malformed                  \* created or truncated: empty
          /\ processed_lock' = t + 1
          /\ pc' = [pc EXCEPT ![t] = "save_dump"]
       \/ /\ tmp_file' = UnlinkTmp(tmp_file)        \* os.open raised
          /\ processed_lock' = 0
          /\ pc' = [pc EXCEPT ![t] = "save_raised"]
          /\ UNCHANGED save_data
    /\ UNCHANGED <<configVars, callVars, ledgerVars, db_file, saved_ledger, clock, pipeVars, boots>>

\* lines 461-473: take the lock, build the data, os.open(tmp, O_CREAT|O_TRUNC).
SaveOpen(t) ==
    /\ pc[t] = "save_open"
    /\ processed_lock = 0
    /\ \/ /\ \E o \in Orders(processed_files) :
                save_data' = Document(DumpLedger(o, conversion_times, clock))
          /\ tmp_file' = Malformed                  \* created or truncated: empty
          /\ processed_lock' = t + 1
          /\ pc' = [pc EXCEPT ![t] = "save_dump"]
       \/ /\ tmp_file' = UnlinkTmp(tmp_file)        \* os.open raised
          /\ processed_lock' = 0
          /\ pc' = [pc EXCEPT ![t] = "save_raised"]
          /\ UNCHANGED save_data
    /\ UNCHANGED <<configVars, callVars, ledgerVars, db_file, saved_ledger, clock, pipeVars, boots>>

\* lines 474-475: json.dump(data, f, indent=2) and close.
SaveDump(t) ==
    /\ pc[t] = "save_dump"
    /\ processed_lock = t + 1
    /\ \/ /\ tmp_file' = save_data
          /\ pc' = [pc EXCEPT ![t] = "save_replace"]
          /\ UNCHANGED <<processed_lock, save_data>>
       \/ /\ tmp_file' = UnlinkTmp(Malformed)       \* write raised part-way
          /\ processed_lock' = 0
          /\ save_data' = Absent
          /\ pc' = [pc EXCEPT ![t] = "save_raised"]
    /\ UNCHANGED <<configVars, callVars, ledgerVars, db_file, saved_ledger, clock, pipeVars, boots>>

\* line 476: os.replace(tmp_file, db_file), then the lock is released.
SaveReplace(t) ==
    /\ pc[t] = "save_replace"
    /\ processed_lock = t + 1
    /\ \/ /\ db_file' = tmp_file
          /\ tmp_file' = Absent
          /\ saved_ledger' = [boot |-> boots, files |-> processed_files,
                              times |-> conversion_times]
          /\ pc' = [pc EXCEPT ![t] = "save_ok"]
       \/ /\ tmp_file' = UnlinkTmp(tmp_file)        \* os.replace raised
          /\ pc' = [pc EXCEPT ![t] = "save_raised"]
          /\ UNCHANGED <<db_file, saved_ledger>>
    /\ processed_lock' = 0
    /\ save_data' = Absent
    /\ UNCHANGED <<configVars, callVars, ledgerVars, clock, pipeVars, boots>>

(***************************************************************************)
(* Daemon life cycle                                                       *)
(***************************************************************************)
NoJob ==
    [path |-> PathA, start |-> 0, result |-> "none", timeout |-> FALSE, validated |-> FALSE,
     attempts |-> 0, post_failed |-> FALSE]

\* __init__ (lines 130-174): conversion_times = {}, load the ledger, empty
\* in-flight set, fresh locks.  An exception of the load leaves __init__.
Construct ==
    /\ pc[0] = "down"
    /\ boots < MaxBoots
    /\ boots' = boots + 1
    /\ LET loaded == load_processed_files(db_file, EmptyDict) IN
       IF loaded.raised
       THEN /\ pc' = [pc EXCEPT ![0] = "init_failed"]
            /\ UNCHANGED ledgerVars
       ELSE /\ pc' = [pc EXCEPT ![0] = "idle"]
            /\ processed_files' = loaded.hashes
            /\ conversion_times' = loaded.times
    /\ converting' = {}
    /\ processed_lock' = 0
    /\ UNCHANGED <<configVars, callVars, diskVars, clock, fs, work, job,
                   stop_outputs, batches>>

\* The process stops (kill, power loss, exit after a failed construction):
\* memory is lost, the state directory, the work directory and the watched
\* tree stay as they are.
Crash ==
    /\ pc[0] # "down"
    /\ pc' = [t \in Threads |-> IF t = 0 THEN "down" ELSE "none"]
    /\ processed_files' = {}
    /\ conversion_times' = EmptyDict
    /\ converting' = {}
    /\ processed_lock' = 0
    /\ job' = [j \in Jobs |-> NoJob]
    /\ save_data' = Absent
    /\ stop_outputs' = {p \in CandidatePaths : fs[with_suffix(p, "m4v")] # Missing}
    /\ UNCHANGED <<configVars, callVars, db_file, tmp_file, saved_ledger, clock, fs, work, batches,
                   boots>>

\* time passes
Tick ==
    /\ clock < MaxClock
    /\ clock' = clock + 1
    /\ UNCHANGED <<configVars, callVars, ledgerVars, converting, processed_lock, diskVars, pc,
                   fs, work, job, stop_outputs, batches, boots>>

\* A direct call of save_processed_files() on the main thread.
CallSave ==
    /\ pc[0] = "idle"
    /\ pc' = [pc EXCEPT ![0] = "save_open"]
    /\ UNCHANGED <<configVars, callVars, ledgerVars, converting, processed_lock, diskVars,
                   clock, pipeVars, boots>>

\* The direct call returns or raises to its caller.
SaveReturn ==
    /\ pc[0] \in {"save_ok", "save_raised"}
    /\ pc' = [pc EXCEPT ![0] = "idle"]
    /\ UNCHANGED <<configVars, callVars, ledgerVars, converting, processed_lock, diskVars,
                   clock, pipeVars, boots>>

\* State of the process and of its directories before the first construction.
InitCommon ==
    /\ processed_files = {}
    /\ conversion_times = EmptyDict
    /\ converting = {}
    /\ processed_lock = 0
    /\ tmp_file = Absent
    /\ save_data = Absent
    /\ saved_ledger = NoLedger
    /\ clock = 0
    /\ pc = [t \in Threads |-> IF t = 0 THEN "down" ELSE "none"]
    /\ work = {}
    /\ job = [j \in Jobs |-> NoJob]
    /\ stop_outputs = {}
    /\ batches = 0
    /\ boots = 0
    /\ call = NoCall
    /\ InitRun
    /\ InitSftp
    /\ directories = <<>>
    /\ resolved_allowed_dirs = <<>>
    /\ tree = NoTree

(***************************************************************************)
(* Eligibility filter                                                      *)
(***************************************************************************)
Lower(ext) == CASE ext = "M4V" -> "m4v" [] ext = "MKV" -> "mkv" [] OTHER -> ext

\* size > MAX_FILE_SIZE_BYTES
SizeExceedsMax(s) ==
    s.gib > MAX_FILE_SIZE_GIB \/ (s.gib = MAX_FILE_SIZE_GIB /\ s.rem > 0)

\* size == 0
SizeIsZero(s) == s.gib = 0 /\ s.rem = 0

\* What the environment does to the calls of one eligibility evaluation:
\* "ok", "ioerror" (the call fails with IOError / OSError) or "raise" (the
\* connection cannot be re-established: SFTPConnectionError).
Envs ==
    IF remote_mode
    THEN [exists : {"ok", "ioerror", "raise"}, stat : {"ok", "ioerror", "raise"}]
    ELSE [exists : {"ok"}, stat : {"ok", "ioerror"}]

\* sftp_ops.sftp_exists
sftp_exists(path, outcome) ==
    CASE outcome = "raise" -> "raise"
      [] outcome = "ioerror" -> "false"
      [] OTHER -> IF fs[path] # Missing THEN "true" ELSE "false"

\* _should_process_local
should_process_local(video_path, env) ==
    LET file_hash == get_file_hash(video_path)
        output_path == with_suffix(video_path, "m4v")
    IN IF file_hash \in processed_files THEN "false"
       ELSE IF file_hash \in converting THEN "false"
       ELSE IF fs[output_path] # Missing /\ output_path # video_path THEN "false"
       ELSE IF Lower(video_path.ext) = "m4v" THEN "false"
       ELSE IF fs[video_path] = Missing \/ env.stat # "ok" THEN "false"
       ELSE IF SizeExceedsMax(fs[video_path]) THEN "false"
       ELSE IF SizeIsZero(fs[video_path]) THEN "false"
       ELSE "true"

\* _should_process_remote
should_process_remote(video_path, env) ==
    LET file_hash == get_file_hash(video_path)
        output_path == with_suffix(video_path, "m4v")
    IN IF file_hash \in processed_files THEN "false"
       ELSE IF file_hash \in converting THEN "false"
       ELSE IF Lower(video_path.ext) = "m4v" THEN "false"
       ELSE IF output_path # video_path /\ sftp_exists(output_path, env.exists) = "true"
            THEN "false"
       ELSE IF env.stat = "raise" THEN "raise"
       ELSE IF env.stat = "ioerror" \/ fs[video_path] = Missing THEN "false"
       ELSE IF SizeExceedsMax(fs[video_path]) THEN "false"
       ELSE IF SizeIsZero(fs[video_path]) THEN "false"
       ELSE "true"

\* should_process
should_process(video_path, env) ==
    IF remote_mode
    THEN should_process_remote(video_path, env)
    ELSE should_process_local(video_path, env)

(***************************************************************************)
(* Batch scheduler                                                         *)
(***************************************************************************)
CandidateLists == UNION {[1..n -> CandidatePaths] : n \in 0..MaxBatchLen}

Indices(n) == [i \in 1..n |-> i]

Finished(j) == pc[j] \in {"returned", "raised"}
Active(j) == pc[j] \notin {"none", "queued", "returned", "raised"}

\* process_batch, lines 1071-1088, given one of the candidate lists: filter
\* the candidates, then submit every eligible one to the pool.  An exception
\* of the filter leaves process_batch.
ProcessBatchOf(lists) ==
    /\ pc[0] = "idle"
    /\ batches < MaxBatches
    /\ batches' = batches + 1
    /\ \E videos \in lists :
       \E envs \in [1..Len(videos) -> Envs] :
          LET decision == [i \in 1..Len(videos) |-> should_process(videos[i], envs[i])]
              chosen == SelectSeq(Indices(Len(videos)), LAMBDA i : decision[i] = "true")
              to_process == [k \in 1..Len(chosen) |-> videos[chosen[k]]]
          IN IF (\E i \in 1..Len(videos) : decision[i] = "raise") \/ Len(to_process) = 0
             THEN UNCHANGED <<pc, job>>
             ELSE /\ pc' = [t \in Threads |->
                              IF t = 0 THEN "batch"
                              ELSE IF t <= Len(to_process) THEN "queued" ELSE "none"]
                  /\ job' = [j \in Jobs |->
                              IF j <= Len(to_process)
                              THEN [NoJob EXCEPT !.path = to_process[j]]
                              ELSE NoJob]
    /\ UNCHANGED <<configVars, callVars, ledgerVars, converting, processed_lock, diskVars, clock,
                   fs, work, stop_outputs, boots>>

ProcessBatch == ProcessBatchOf(CandidateLists)

\* Mutation of BatchDone: the first exception of a future leaves
\* process_batch.
BatchDone_FirstException ==
    /\ pc[0] = "batch"
    /\ \/ \A j \in Jobs : pc[j] # "none" => Finished(j)
       \/ \E j \in Jobs : pc[j] = "raised"
    /\ pc' = [t \in Threads |-> IF t = 0 THEN "idle" ELSE "none"]
    /\ job' = [j \in Jobs |-> NoJob]
    /\ UNCHANGED <<configVars, callVars, ledgerVars, converting, processed_lock, diskVars, clock,
                   fs, work, stop_outputs, batches, boots>>

\* process_batch, lines 1090-1099 and the exit of the executor: every future
\* has completed and its result or exception has been logged.
BatchDone ==
    /\ pc[0] = "batch"
    /\ \A j \in Jobs : pc[j] # "none" => Finished(j)
    /\ pc' = [t \in Threads |-> IF t = 0 THEN "idle" ELSE "none"]
    /\ job' = [j \in Jobs |-> NoJob]
    /\ UNCHANGED <<configVars, callVars, ledgerVars, converting, processed_lock, diskVars, clock,
                   fs, work, stop_outputs, batches, boots>>

(***************************************************************************)
(* Conversion pipeline: convert_video run by pool job j                    *)
(***************************************************************************)
Hash(j) == get_file_hash(job[j].path)
TempOutput(h) == [hash |-> h, kind |-> "output"]
TempInput(h) == [hash |-> h, kind |-> "input"]

jobFrame == <<configVars, callVars, diskVars, clock, stop_outputs, batches, boots>>

Goto(j, label) == pc' = [pc EXCEPT ![j] = label]
Failed(j) ==
    /\ pc' = [pc EXCEPT ![j] = "release"]
    /\ job' = [job EXCEPT ![j].result = "Failed"]

\* Mutation of StartJob: the dry-run flag is not consulted.
StartJob_IgnoresDryRun(j) ==
    /\ pc[j] = "queued"
    /\ \A k \in Jobs : k < j => pc[k] # "queued"
    /\ Cardinality({k \in Jobs : Active(k)}) < max_workers
    /\ converting' = converting \cup {Hash(j)}
    /\ job' = [job EXCEPT ![j].start = clock, ![j].attempts = @ + 1]
    /\ Goto(j, "validate")
    /\ UNCHANGED <<jobFrame, ledgerVars, processed_lock, fs, work>>

\* A pool thread takes the next queued job and runs convert_video up to the
\* end of the Claim step; lines 899-905 / 770-783.
StartJob(j) ==
    /\ pc[j] = "queued"
    /\ \A k \in Jobs : k < j => pc[k] # "queued"
    /\ Cardinality({k \in Jobs : Active(k)}) < max_workers
    /\ converting' = converting \cup {Hash(j)}
    /\ job' = [job EXCEPT ![j].start = clock, ![j].attempts = @ + 1]
    /\ Goto(j, IF dry_run THEN "dryrun" ELSE "validate")
    /\ UNCHANGED <<jobFrame, ledgerVars, processed_lock, fs, work>>

\* The entry recorded for a completed attempt.
Entry(start, now, dry) ==
    PyDict([f \in (IF dry THEN {"timestamp", "duration_seconds", "dry_run"}
                         ELSE {"timestamp", "duration_seconds"}) |->
              CASE f = "timestamp" -> PyInt(start)
                [] f = "duration_seconds" -> PyInt(now - start)
                [] OTHER -> PyBool(TRUE)])

\* Dry-run short-circuit, lines 910-921 / 788-798 (up to the save).
\* Commit, lines 1018-1025 / 859-866 (up to the save).
Commit(j) ==
    /\ pc[j] \in {"dryrun", "commit"}
    /\ processed_lock = 0
    /\ processed_files' = processed_files \cup {Hash(j)}
    /\ conversion_times' =
           DictSet(conversion_times, Hash(j), Entry(job[j].start, clock, pc[j] = "dryrun"))
    /\ Goto(j, "save_open")
    /\ UNCHANGED <<jobFrame, converting, processed_lock, fs, work, job>>

\* Mutation of Validate: the attempt goes on whatever the checks say.
Validate_Skipped(j) ==
    /\ pc[j] = "validate"
    /\ \E check \in {"ok", "vanished", "unsafe", "no_space", "oserror"} :
          /\ Goto(j, IF remote_mode THEN "download" ELSE "transcode")
          /\ job' = [job EXCEPT ![j].validated = (check = "ok")]
    /\ UNCHANGED <<jobFrame, ledgerVars, converting, processed_lock, fs, work>>

\* Re-validation, lines 924-971 (local: is_file, _is_safe_path, disk space
\* of work_dir and of the output directory, temporary path inside work_dir)
\* and lines 801-804 (remote: validate_remote_path).  check is what the
\* checks find at this moment.
Validate(j) ==
    /\ pc[j] = "validate"
    /\ \E check \in {"ok", "vanished", "unsafe", "no_space", "oserror"} :
          /\ check = "ok" => (remote_mode \/ fs[job[j].path] # Missing)
          /\ (check \in {"vanished", "no_space", "oserror"}) => ~remote_mode
          /\ IF check = "ok"
             THEN /\ Goto(j, IF remote_mode THEN "download" ELSE "transcode")
                  /\ job' = [job EXCEPT ![j].validated = TRUE]
             ELSE Failed(j)
    /\ UNCHANGED <<jobFrame, ledgerVars, converting, processed_lock, fs, work>>

\* Download, lines 806-812 (remote mode): sftp_download into work_dir.
Download(j) ==
    /\ pc[j] = "download"
    /\ \E outcome \in {"ok", "ioerror", "raise"} :
          IF fs[job[j].path] # Missing /\ outcome = "ok"
          THEN /\ work' = work \cup {TempInput(Hash(j))}
               /\ Goto(j, "transcode")
               /\ UNCHANGED job
          ELSE Failed(j) /\ UNCHANGED work
    /\ UNCHANGED <<jobFrame, ledgerVars, converting, processed_lock, fs>>

InputPresent(j) ==
    IF remote_mode THEN TempInput(Hash(j)) \in work ELSE fs[job[j].path] # Missing

\* Transcode, lines 977-992 / 818-830: subprocess.run is called, then the
\* exit status is checked.
Transcode(j) ==
    /\ pc[j] = "transcode"
    /\ \E outcome \in {"ok", "no_output", "nonzero", "timeout", "oserror"} :
          /\ outcome = "ok" => InputPresent(j)
          /\ CASE outcome = "ok" ->
                    /\ work' = work \cup {TempOutput(Hash(j))}
                    /\ Goto(j, "finalize")
                    /\ UNCHANGED job
               [] outcome = "no_output" ->
                    /\ Goto(j, "finalize")
                    /\ UNCHANGED <<work, job>>
               [] outcome = "nonzero" ->
                    /\ work' = IF remote_mode THEN work ELSE work \ {TempOutput(Hash(j))}
                    /\ Failed(j)
               [] outcome = "timeout" ->
                    /\ Goto(j, "release")
                    /\ job' = [job EXCEPT ![j].result = "Failed", ![j].timeout = TRUE]
                    /\ UNCHANGED work
               [] OTHER ->
                    /\ Failed(j)
                    /\ UNCHANGED work
    /\ UNCHANGED <<jobFrame, ledgerVars, converting, processed_lock, fs>>

\* Mutation of Finalize: a failed move or upload does not end the attempt.
Finalize_Unverified(j) ==
    /\ pc[j] = "finalize"
    /\ \E outcome \in {"ok", "error"} :
          IF TempOutput(Hash(j)) \in work /\ outcome = "ok"
          THEN /\ fs' = [fs EXCEPT ![with_suffix(job[j].path, "m4v")] = OutputSize]
               /\ work' = IF remote_mode THEN work ELSE work \ {TempOutput(Hash(j))}
          ELSE UNCHANGED <<fs, work>>
    /\ Goto(j, "post")
    /\ UNCHANGED <<job, jobFrame, ledgerVars, converting, processed_lock>>

\* Verify and finalize, lines 994-1001 (shutil.move) / 832-842 (sftp_upload).
Finalize(j) ==
    /\ pc[j] = "finalize"
    /\ \E outcome \in {"ok", "error"} :
          IF TempOutput(Hash(j)) \in work /\ outcome = "ok"
          THEN /\ fs' = [fs EXCEPT ![with_suffix(job[j].path, "m4v")] = OutputSize]
               /\ work' = IF remote_mode THEN work ELSE work \ {TempOutput(Hash(j))}
               /\ Goto(j, "post")
               /\ UNCHANGED job
          ELSE Failed(j) /\ UNCHANGED <<fs, work>>
    /\ UNCHANGED <<jobFrame, ledgerVars, converting, processed_lock>>

\* Mutation of PostProcess: a failure of one of the two steps fails the
\* attempt.
PostProcess_Fatal(j) ==
    /\ pc[j] = "post"
    /\ \E utime, unlink \in {"ok", "error"} :
          LET failed == utime = "error" \/ (~keep_original /\ unlink = "error")
          IN /\ fs' = IF ~keep_original /\ unlink = "ok"
                      THEN [fs EXCEPT ![job[j].path] = Missing]
                      ELSE fs
             /\ IF failed
                THEN /\ pc' = [pc EXCEPT ![j] = "release"]
                     /\ job' = [job EXCEPT ![j].result = "Failed", ![j].post_failed = TRUE]
                ELSE Goto(j, "commit") /\ UNCHANGED job
    /\ UNCHANGED <<jobFrame, ledgerVars, converting, processed_lock, work>>

\* Timestamps and deletion of the original, lines 1003-1016 / 844-857: both
\* best effort.  utime is the outcome of reading the source's times and
\* setting them on the output, unlink that of deleting the original; every
\* exception of either is caught and logged.
PostProcess(j) ==
    /\ pc[j] = "post"
    /\ \E utime, unlink \in {"ok", "error"} :
          /\ fs' = IF ~keep_original /\ unlink = "ok"
                   THEN [fs EXCEPT ![job[j].path] = Missing]
                   ELSE fs
          /\ job' = [job EXCEPT ![j].post_failed =
                                   utime = "error" \/ (~keep_original /\ unlink = "error")]
    /\ Goto(j, "commit")
    /\ UNCHANGED <<jobFrame, ledgerVars, converting, processed_lock, work>>

\* The save called by the pipeline has returned (lines 1026-1029) or raised
\* (lines 1036-1038).
AfterSave(j) ==
    /\ pc[j] \in {"save_ok", "save_raised"}
    /\ Goto(j, "release")
    /\ job' = [job EXCEPT ![j].result = IF pc[j] = "save_ok" THEN "Success" ELSE "Failed"]
    /\ UNCHANGED <<jobFrame, ledgerVars, converting, processed_lock, fs, work>>

\* Mutation of Release: the identity stays in the in-flight set.
Release_Kept(j) ==
    /\ pc[j] = "release"
    /\ Goto(j, "cleanup")
    /\ UNCHANGED <<jobFrame, ledgerVars, converting, processed_lock, fs, work, job>>

\* Release, lines 1039-1041 / 883-885.
Release(j) ==
    /\ pc[j] = "release"
    /\ converting' = converting \ {Hash(j)}
    /\ Goto(j, "cleanup")
    /\ UNCHANGED <<jobFrame, ledgerVars, processed_lock, fs, work, job>>

\* Cleanup of the temporary files, lines 1042-1044 / 886-888, and the
\* return; an exception of unlink leaves convert_video.
Cleanup(j) ==
    /\ pc[j] = "cleanup"
    /\ \/ /\ work' = work \ {TempOutput(Hash(j)), TempInput(Hash(j))}
          /\ Goto(j, "returned")
       \/ /\ Goto(j, "raised")                     \* unlink raised
          /\ UNCHANGED work
    /\ UNCHANGED <<jobFrame, ledgerVars, converting, processed_lock, fs, job>>

JobStep(j) ==
    \/ StartJob(j)
    \/ Commit(j)
    \/ Validate(j)
    \/ Download(j)
    \/ Transcode(j)
    \/ Finalize(j)
    \/ PostProcess(j)
    \/ SaveOpen(j)
    \/ SaveDump(j)
    \/ SaveReplace(j)
    \/ AfterSave(j)
    \/ Release(j)
    \/ Cleanup(j)

Init ==
    /\ InitCommon
    /\ db_file = Absent
    /\ remote_mode \in BOOLEAN
    /\ dry_run \in BOOLEAN
    /\ keep_original \in BOOLEAN
    /\ max_workers \in 1..MaxWorkers
    /\ \E sizes \in [CandidatePaths -> FileSizes] :
          fs = [p \in AllPaths |-> IF p \in CandidatePaths THEN sizes[p] ELSE Missing]

Next ==
    \/ Construct
    \/ Crash
    \/ ProcessBatch
    \/ BatchDone
    \/ \E j \in Jobs : JobStep(j)

Spec == Init /\ [][Next]_vars

(***************************************************************************)
(* One conversion attempt at a time: every batch holds a single candidate. *)
(***************************************************************************)
SingleLists == {<<p>> : p \in CandidatePaths}

ProcessSingle == ProcessBatchOf(SingleLists)

NextAttempt ==
    \/ Construct
    \/ ProcessSingle
    \/ BatchDone
    \/ \E j \in Jobs : JobStep(j)

SpecAttempt == Init /\ [][NextAttempt]_vars

(***************************************************************************)
(* Batches of two candidates, the same path twice included, on a daemon    *)
(* that is not stopped.                                                    *)
(***************************************************************************)
PairLists == {<<p, q>> : p, q \in CandidatePaths}

ProcessPair == ProcessBatchOf(PairLists)

NextBatch ==
    \/ Construct
    \/ ProcessPair
    \/ BatchDone
    \/ \E j \in Jobs : JobStep(j)

SpecBatch == Init /\ [][NextBatch]_vars

\* The same batches on a daemon that keeps the originals, every candidate
\* being an ordinary file: every conversion that is started can reach its
\* commit and its save.
InitSaves ==
    /\ Init
    /\ keep_original = TRUE
    /\ \A p \in CandidatePaths : fs[p] = Size(0, 1)

SpecSaves == InitSaves /\ [][NextBatch]_vars

(***************************************************************************)
(* Batches of two siblings: a.mkv and a.mp4 lie in one directory, both are *)
(* ordinary files and no a.m4v exists when the daemon starts.              *)
(***************************************************************************)
SiblingLists == {<<PathA, PathAmp4>>, <<PathAmp4, PathA>>}

ProcessSiblings == ProcessBatchOf(SiblingLists)

InitSiblings ==
    /\ InitCommon
    /\ db_file = Absent
    /\ remote_mode \in BOOLEAN
    /\ dry_run \in BOOLEAN
    /\ keep_original \in BOOLEAN
    /\ max_workers \in 1..MaxWorkers
    /\ fs = [p \in AllPaths |-> IF p \in {PathA, PathAmp4} THEN Size(0, 1) ELSE Missing]

NextSiblings ==
    \/ Construct
    \/ ProcessSiblings
    \/ BatchDone
    \/ \E j \in Jobs : JobStep(j)

SpecSiblings == InitSiblings /\ [][NextSiblings]_vars

(***************************************************************************)
(* The daemon loop: run() on a constructed daemon, with scans that find    *)
(* at most one candidate, and shutdown signals.                            *)
(***************************************************************************)
MIN_SCAN_INTERVAL == 30
SLEEP_STEP == 5
COOLDOWN == 30

\* config: daemon.scan_interval, the smallest value validate_config admits.
scan_interval == MIN_SCAN_INTERVAL

InLoop == run_pc \in {"while", "scan", "process_batch", "in_batch", "sleep", "except"}

\* What discover_videos may return to run().
DiscoveredLists == {<<>>} \cup SingleLists

\* run(), lines 1101-1120: the daemon loop is entered, or the single cycle
\* of dry-run mode.
RunCall ==
    /\ pc[0] = "idle"
    /\ run_pc = "none"
    /\ run_pc' = IF dry_run THEN "scan" ELSE "while"
    /\ cycles' = IF dry_run THEN cycles + 1 ELSE cycles
    /\ UNCHANGED <<configVars, ledgerVars, converting, processed_lock, diskVars, clock, pc,
                   pipeVars, boots, call, directories, resolved_allowed_dirs, tree, sftpVars,
                   running, discovery_cache, discoveries, sleep_elapsed, slept>>

\* The loop test of line 1120, and lines 1157-1164 when it fails.
While ==
    /\ run_pc = "while"
    /\ running => cycles < MaxCycles
    /\ IF running
       THEN run_pc' = "scan" /\ cycles' = cycles + 1
       ELSE run_pc' = "stopped" /\ UNCHANGED cycles
    /\ UNCHANGED <<configVars, ledgerVars, converting, processed_lock, diskVars, clock, pc,
                   pipeVars, boots, call, directories, resolved_allowed_dirs, tree, sftpVars,
                   running, discovery_cache, discoveries, sleep_elapsed, slept>>

\* Mutation of CycleRaised: the exception leaves run().
CycleRaised_Propagates ==
    run_pc' = "stopped"

\* An exception leaves the try block of the cycle: lines 1153-1154 in the
\* loop, lines 1116-1118 in dry-run mode.
CycleRaised ==
    run_pc' = IF dry_run THEN "stopped" ELSE "except"

\* any(self.should_process(v) for v in videos) of line 1129, given the
\* decision for every element: evaluation stops at the first True or at the
\* first exception.
any_should_process(decision) ==
    LET stops == {i \in DOMAIN decision : decision[i] \in {"true", "raise"}}
    IN IF stops = {}
       THEN "false"
       ELSE decision[CHOOSE i \in stops : \A k \in stops : i <= k]

\* Lines 1122-1138 (line 1113 in dry-run mode): the videos of this cycle are
\* the cached list when it is non-empty, fresh and holds no pending work,
\* and the result of a new discovery otherwise.  discover_videos raises
\* only in local mode (Path.exists() of a configured directory, line 589).
Scan ==
    /\ run_pc = "scan"
    /\ \E fresh \in BOOLEAN :
       \E envs \in [DOMAIN discovery_cache -> Envs] :
       \E found \in DiscoveredLists :
       \E outcome \in {"ok", "raise"} :
          LET decision == [i \in DOMAIN discovery_cache |->
                              should_process(discovery_cache[i], envs[i])]
              tested == ~dry_run /\ discovery_cache # <<>> /\ fresh
              pending == any_should_process(decision)
          IN /\ outcome = "raise" => ~remote_mode
             /\ IF tested /\ pending = "raise"
                THEN CycleRaised /\ UNCHANGED <<discovery_cache, discoveries>>
                ELSE IF tested /\ pending = "false"
                THEN run_pc' = "process_batch" /\ UNCHANGED <<discovery_cache, discoveries>>
                ELSE /\ discoveries' = discoveries + 1
                     /\ IF outcome = "raise"
                        THEN CycleRaised /\ UNCHANGED discovery_cache
                        ELSE run_pc' = "process_batch" /\ discovery_cache' = found
    /\ UNCHANGED <<configVars, ledgerVars, converting, processed_lock, diskVars, clock, pc,
                   pipeVars, boots, call, directories, resolved_allowed_dirs, tree, sftpVars,
                   running, cycles, sleep_elapsed, slept>>

\* The cycle's work is done: lines 1143-1148, or lines 1115 and 1118 in
\* dry-run mode.
CycleComplete ==
    /\ run_pc' = IF dry_run THEN "stopped" ELSE "sleep"
    /\ sleep_elapsed' = 0

\* Line 1141 (1114): process_batch(videos) as called by run(), lines
\* 1071-1088.  An exception of the filter leaves process_batch and the try
\* block; with nothing to process the call returns at once.
RunProcessBatch ==
    /\ run_pc = "process_batch"
    /\ pc[0] = "idle"
    /\ batches' = batches + 1
    /\ \E envs \in [DOMAIN discovery_cache -> Envs] :
          LET videos == discovery_cache
              decision == [i \in 1..Len(videos) |-> should_process(videos[i], envs[i])]
              chosen == SelectSeq(Indices(Len(videos)), LAMBDA i : decision[i] = "true")
              to_process == [k \in 1..Len(chosen) |-> videos[chosen[k]]]
          IN IF \E i \in 1..Len(videos) : decision[i] = "raise"
             THEN CycleRaised /\ UNCHANGED <<pc, job, sleep_elapsed>>
             ELSE IF Len(to_process) = 0
             THEN CycleComplete /\ UNCHANGED <<pc, job>>
             ELSE /\ run_pc' = "in_batch"
                  /\ pc' = [t \in Threads |->
                              IF t = 0 THEN "batch"
                              ELSE IF t <= Len(to_process) THEN "queued" ELSE "none"]
                  /\ job' = [j \in Jobs |->
                              IF j <= Len(to_process)
                              THEN [NoJob EXCEPT !.path = to_process[j]]
                              ELSE NoJob]
                  /\ UNCHANGED sleep_elapsed
    /\ UNCHANGED <<configVars, ledgerVars, converting, processed_lock, diskVars, clock,
                   fs, work, stop_outputs, boots, call, directories, resolved_allowed_dirs,
                   tree, sftpVars, running, cycles, discovery_cache, discoveries, slept>>

\* process_batch has returned to run().
AfterBatch ==
    /\ run_pc = "in_batch"
    /\ pc[0] = "idle"
    /\ CycleComplete
    /\ UNCHANGED <<configVars, ledgerVars, converting, processed_lock, diskVars, clock, pc,
                   pipeVars, boots, call, directories, resolved_allowed_dirs, tree, sftpVars,
                   running, cycles, discovery_cache, discoveries, slept>>

Min(a, b) == IF a < b THEN a ELSE b

\* The interruptible sleep, lines 1149-1151.
Sleep ==
    /\ run_pc = "sleep"
    /\ IF sleep_elapsed < scan_interval /\ running
       THEN /\ slept' = Min(SLEEP_STEP, scan_interval - sleep_elapsed)
            /\ sleep_elapsed' = sleep_elapsed + SLEEP_STEP
            /\ UNCHANGED run_pc
       ELSE /\ run_pc' = "while"
            /\ UNCHANGED <<sleep_elapsed, slept>>
    /\ UNCHANGED <<configVars, ledgerVars, converting, processed_lock, diskVars, clock, pc,
                   pipeVars, boots, call, directories, resolved_allowed_dirs, tree, sftpVars,
                   running, cycles, discovery_cache, discoveries>>

\* The handler of the loop, lines 1153-1155: the error is logged, the
\* cooldown is slept, and control is back at the loop test.
Cooldown ==
    /\ run_pc = "except"
    /\ slept' = COOLDOWN
    /\ run_pc' = "while"
    /\ UNCHANGED <<configVars, ledgerVars, converting, processed_lock, diskVars, clock, pc,
                   pipeVars, boots, call, directories, resolved_allowed_dirs, tree, sftpVars,
                   running, cycles, discovery_cache, discoveries, sleep_elapsed>>

\* handle_shutdown, lines 482-490: SIGTERM or SIGINT arrives.
HandleShutdown ==
    /\ pc[0] \notin {"down", "init_failed"}
    /\ running
    /\ running' = FALSE
    /\ UNCHANGED <<configVars, ledgerVars, converting, processed_lock, diskVars, clock, pc,
                   pipeVars, boots, call, directories, resolved_allowed_dirs, tree, sftpVars,
                   run_pc, cycles, discovery_cache, discoveries, sleep_elapsed, slept>>

NextRun ==
    \/ Construct
    \/ RunCall
    \/ While
    \/ Scan
    \/ RunProcessBatch
    \/ BatchDone
    \/ AfterBatch
    \/ Sleep
    \/ Cooldown
    \/ HandleShutdown
    \/ \E j \in Jobs : JobStep(j)

SpecRun == Init /\ [][NextRun]_vars

(***************************************************************************)
(* Batches of two candidates with shutdown signals that arrive while a     *)
(* batch is in progress.                                                   *)
(***************************************************************************)
\* SIGTERM or SIGINT is delivered while the main thread waits in
\* process_batch for its futures.
ShutdownDuringBatch ==
    /\ pc[0] = "batch"
    /\ HandleShutdown

NextShutdown ==
    \/ NextBatch
    \/ ShutdownDuringBatch

SpecShutdown == Init /\ [][NextShutdown]_vars


(***************************************************************************)
(* Ledger store on its own: a state directory with any of the stored files *)
(* below, a daemon constructed on it, saves, stops and restarts.           *)
(***************************************************************************)
MetaFull == JObject(<<Member("timestamp", JNumber(0)),
                      Member("duration_seconds", JNumber(1))>>)
MetaDry == JObject(<<Member("timestamp", JNumber(1)),
                     Member("duration_seconds", JNumber(0)),
                     Member("dry_run", JTrue)>>)
MetaNoTimestamp == JObject(<<Member("duration_seconds", JNumber(1))>>)
StoredMetas == {MetaFull, MetaDry, MetaNoTimestamp, JNumber(0)}

StoredObjects ==
    {JObject(m) : m \in {s \in UNION {[1..n -> [k : StoredKeys, v : StoredMetas]] :
                                        n \in 0..MaxObjectLen} :
                            \A i, j \in DOMAIN s : s[i].k = s[j].k => i = j}}

StoredArrays ==
    {JArray(a) : a \in UNION {[1..n -> {JString(k) : k \in StoredKeys} \cup {JNumber(0)}] :
                                n \in 0..MaxObjectLen}}

StoredFiles ==
    {Absent, Unreadable, Malformed, Document(JString(HA)), Document(JNumber(0))}
        \cup {Document(j) : j \in StoredObjects \cup StoredArrays}

InitLedger ==
    /\ InitCommon
    /\ db_file \in StoredFiles
    /\ remote_mode = FALSE
    /\ dry_run = FALSE
    /\ keep_original = TRUE
    /\ max_workers = 1
    /\ fs = [p \in AllPaths |-> Missing]

NextLedger ==
    \/ Construct
    \/ Crash
    \/ Tick
    \/ CallSave
    \/ SaveOpen(0)
    \/ SaveDump(0)
    \/ SaveReplace(0)
    \/ SaveReturn

SpecLedger == InitLedger /\ [][NextLedger]_vars

(***************************************************************************)
(* Eligibility filter on its own: a constructed daemon with any ledger,    *)
(* any in-flight set and any watched tree; should_process is called for a  *)
(* candidate under every behaviour of the environment.                     *)
(***************************************************************************)
PathUpper == Path("a", "M4V")
EligPaths == {PathA, with_suffix(PathA, "m4v"), PathUpper}
EligHashes == {get_file_hash(p) : p \in {PathA, PathUpper}}
EligSizes ==
    {Missing, Size(0, 0), Size(0, 1), Size(MAX_FILE_SIZE_GIB, 0), Size(MAX_FILE_SIZE_GIB, 1)}

InitEligibility ==
    /\ remote_mode \in BOOLEAN
    /\ dry_run = FALSE
    /\ keep_original = TRUE
    /\ max_workers = 1
    /\ processed_files \in SUBSET EligHashes
    /\ conversion_times = EmptyDict
    /\ converting \in SUBSET EligHashes
    /\ processed_lock = 0
    /\ db_file = Absent
    /\ tmp_file = Absent
    /\ save_data = Absent
    /\ saved_ledger = NoLedger
    /\ clock = 0
    /\ pc = [t \in Threads |-> IF t = 0 THEN "idle" ELSE "none"]
    /\ fs \in [EligPaths -> EligSizes]
    /\ work = {}
    /\ job = [j \in Jobs |-> NoJob]
    /\ stop_outputs = {}
    /\ batches = 0
    /\ boots = 1
    /\ call = NoCall
    /\ InitRun
    /\ InitSftp
    /\ directories = <<>>
    /\ resolved_allowed_dirs = <<>>
    /\ tree = NoTree

\* should_process(video_path) is called; env is what the environment does
\* to the existence probe and to the stat of this call.
ShouldProcess ==
    /\ pc[0] = "idle"
    /\ call = NoCall
    /\ \E video_path \in EligPaths, env \in Envs :
          call' = Called("should_process", <<video_path, env>>,
                         should_process(video_path, env))
    /\ UNCHANGED <<directories, resolved_allowed_dirs, tree, runVars, sftpVars>>
    /\ UNCHANGED <<configVars, ledgerVars, converting, processed_lock, diskVars, clock,
                   pc, fs, work, job, stop_outputs, batches, boots>>

NextEligibility == ShouldProcess

SpecEligibility == InitEligibility /\ [][NextEligibility]_vars

(***************************************************************************)
(* Local path validator on its own.  A name is a sequence of path          *)
(* segments below "/"; the name space maps a name without symlinks in its  *)
(* parents to a regular file, a directory, a symlink, nothing, or an entry *)
(* that cannot be examined.                                                *)
(***************************************************************************)
restVars == <<configVars, ledgerVars, converting, processed_lock, diskVars, clock, pc,
              fs, work, job, stop_outputs, batches, boots, runVars, sftpVars>>

RegularFile == [kind |-> "file", target |-> <<>>]
Directory == [kind |-> "dir", target |-> <<>>]
Nothing == [kind |-> "missing", target |-> <<>>]
Denied == [kind |-> "denied", target |-> <<>>]
Symlink(target) == [kind |-> "link", target |-> target]

RootV == <<"v">>
RootW == <<"w">>
RootV2 == <<"v2">>
FileV == <<"v", "a.mkv">>
FileW == <<"w", "a.mkv">>
FileV2 == <<"v2", "a.mkv">>
FileVb == <<"v", "b.mkv">>
FileWb == <<"w", "b.mkv">>
FileVtxt == <<"v", "c.txt">>
FileNames == {FileV, FileW, FileV2, FileVb, FileWb, FileVtxt}
Names == {RootV, RootW, RootV2} \cup FileNames

\* The name spaces explored: /v is a directory or a symlink to /w, /w may
\* be absent, /v/a.mkv is a file, absent, unreadable, or a symlink to a file
\* under /w or /v2, /v/b.mkv may be absent.
Trees ==
    {t \in [Names -> {RegularFile, Directory, Nothing, Denied,
                      Symlink(RootW), Symlink(FileW), Symlink(FileV2)}] :
        /\ t[RootV] \in {Directory, Symlink(RootW)}
        /\ t[RootW] \in {Directory, Nothing}
        /\ t[RootV2] = Directory
        /\ t[FileV] \in {RegularFile, Nothing, Denied, Symlink(FileW), Symlink(FileV2)}
        /\ t[FileW] \in {RegularFile, Nothing}
        /\ t[FileV2] = RegularFile
        /\ t[FileVb] \in {RegularFile, Nothing}
        /\ t[FileWb] = RegularFile
        /\ t[FileVtxt] = RegularFile}

RootLists == {<<>>, <<RootV>>, <<RootW>>, <<RootV, RootW>>, <<RootV2>>}

\* Result of a resolution that raised OSError.
Unresolved == <<"", "OSError">>

\* Path.resolve(strict=True): the canonical name, following symlinks.
RECURSIVE Resolve(_)
Resolve(p) ==
    IF p = <<>>
    THEN <<>>
    ELSE LET parent == Resolve(SubSeq(p, 1, Len(p) - 1)) IN
         IF parent = Unresolved
         THEN Unresolved
         ELSE LET q == Append(parent, p[Len(p)]) IN
              IF q \notin DOMAIN tree
              THEN Unresolved
              ELSE CASE tree[q].kind \in {"file", "dir"} -> q
                     [] tree[q].kind = "link" -> Resolve(tree[q].target)
                     [] OTHER -> Unresolved

\* PurePath.relative_to(other) does not raise ValueError: other is a
\* component-wise prefix of the path.
relative_to(resolved, allowed_resolved) ==
    /\ Len(allowed_resolved) <= Len(resolved)
    /\ SubSeq(resolved, 1, Len(allowed_resolved)) = allowed_resolved

\* __init__, lines 147-155: the roots that resolve to a directory.
ResolvedAllowedDirs(dirs) ==
    LET all == [i \in DOMAIN dirs |-> Resolve(dirs[i])]
    IN SelectSeq(all, LAMBDA d : d # Unresolved /\ tree[d].kind = "dir")

\* _is_safe_path(path, allowed_dirs), lines 497-527.
is_safe_path(path, allowed_dirs) ==
    LET resolved == Resolve(path) IN
    IF resolved = Unresolved
    THEN FALSE
    ELSE LET on_the_fly == SelectSeq([i \in DOMAIN allowed_dirs |-> Resolve(allowed_dirs[i])],
                                     LAMBDA d : d # Unresolved)
             resolved_dirs == IF resolved_allowed_dirs # <<>>
                              THEN resolved_allowed_dirs
                              ELSE on_the_fly
         IN \E i \in DOMAIN resolved_dirs : relative_to(resolved, resolved_dirs[i])

\* A constructed, idle daemon with an empty ledger.
InitIdle ==
    /\ dry_run = FALSE
    /\ keep_original = TRUE
    /\ max_workers = 1
    /\ processed_files = {}
    /\ conversion_times = EmptyDict
    /\ converting = {}
    /\ processed_lock = 0
    /\ db_file = Absent
    /\ tmp_file = Absent
    /\ save_data = Absent
    /\ saved_ledger = NoLedger
    /\ clock = 0
    /\ pc = [t \in Threads |-> IF t = 0 THEN "idle" ELSE "none"]
    /\ fs = [p \in AllPaths |-> Missing]
    /\ work = {}
    /\ job = [j \in Jobs |-> NoJob]
    /\ stop_outputs = {}
    /\ batches = 0
    /\ boots = 1
    /\ call = NoCall
    /\ InitRun

\* Local mode; the daemon was constructed with any of the root lists on any
\* of the name spaces.
InitSafePath ==
    /\ InitIdle
    /\ InitSftp
    /\ remote_mode = FALSE
    /\ tree \in Trees
    /\ directories \in RootLists
    /\ resolved_allowed_dirs = ResolvedAllowedDirs(directories)

\* _is_safe_path(path, allowed_dirs) is called.
IsSafePath ==
    /\ pc[0] = "idle"
    /\ call = NoCall
    /\ \E path \in {FileV, FileW, RootV}, allowed_dirs \in RootLists :
          call' = Called("_is_safe_path", <<path, allowed_dirs>>,
                         is_safe_path(path, allowed_dirs))
    /\ UNCHANGED <<restVars, directories, resolved_allowed_dirs, tree>>

NextSafePath == IsSafePath

SpecSafePath == InitSafePath /\ [][NextSafePath]_vars

(***************************************************************************)
(* Remote path validator on its own.  A remote path is a string, kept as   *)
(* the sequence of its characters.                                         *)
(***************************************************************************)
PathChars == {"/", ".", "m", "2"}
RemotePaths == UNION {[1..n -> PathChars] : n \in 0..MaxPathLen}

Sep == <<"/">>
Dot == <<".">>
DotDot == <<".", ".">>

RemoteRoot == <<"/">>
RemoteM == <<"/", "m">>
RemoteMSlash == <<"/", "m", "/">>
RemoteM2 == <<"/", "m", "2">>
RemoteRootLists ==
    {<<>>, <<RemoteRoot>>, <<RemoteM>>, <<RemoteMSlash>>, <<RemoteM2, RemoteM>>}

\* str.startswith
StartsWith(s, prefix) ==
    Len(prefix) <= Len(s) /\ SubSeq(s, 1, Len(prefix)) = prefix

\* str.split('/')
RECURSIVE Split(_)
Split(s) ==
    IF s = <<>>
    THEN << <<>> >>
    ELSE LET rest == Split(Tail(s)) IN
         IF Head(s) = "/"
         THEN << <<>> >> \o rest
         ELSE << <<Head(s)>> \o Head(rest) >> \o Tail(rest)

\* '/'.join(comps)
RECURSIVE Join(_)
Join(comps) ==
    IF comps = <<>> THEN <<>>
    ELSE IF Len(comps) = 1 THEN comps[1]
    ELSE comps[1] \o Sep \o Join(Tail(comps))

\* new_comps of posixpath.normpath after the first n components.
RECURSIVE NewComps(_, _, _)
NewComps(comps, n, initial_slashes) ==
    IF n = 0
    THEN <<>>
    ELSE LET before == NewComps(comps, n - 1, initial_slashes)
             comp == comps[n]
         IN IF comp = <<>> \/ comp = Dot
            THEN before
            ELSE IF \/ comp # DotDot
                    \/ (initial_slashes = 0 /\ before = <<>>)
                    \/ (before # <<>> /\ before[Len(before)] = DotDot)
            THEN Append(before, comp)
            ELSE IF before # <<>>
            THEN SubSeq(before, 1, Len(before) - 1)
            ELSE before

\* posixpath.normpath
normpath(path) ==
    IF path = <<>>
    THEN Dot
    ELSE LET initial_slashes ==
                 IF ~StartsWith(path, Sep) THEN 0
                 ELSE IF StartsWith(path, Sep \o Sep) /\ ~StartsWith(path, Sep \o Sep \o Sep)
                 THEN 2
                 ELSE 1
             comps == Split(path)
             joined == Join(NewComps(comps, Len(comps), initial_slashes))
             result == IF initial_slashes = 0 THEN joined
                       ELSE IF initial_slashes = 1 THEN Sep \o joined
                       ELSE Sep \o Sep \o joined
         IN IF result = <<>> THEN Dot ELSE result

\* sftp_ops.validate_remote_path
validate_remote_path(path, allowed_dirs) ==
    LET normalized == normpath(path)
        parts == Split(normalized)
    IN IF \E i \in DOMAIN parts : parts[i] = DotDot
       THEN FALSE
       ELSE IF ~StartsWith(normalized, Sep)
       THEN FALSE
       ELSE \E i \in DOMAIN allowed_dirs :
               LET allowed_normalized == normpath(allowed_dirs[i])
               IN \/ normalized = allowed_normalized
                  \/ StartsWith(normalized, allowed_normalized \o Sep)

\* Remote mode, any configured list of prefixes.
InitRemotePath ==
    /\ InitIdle
    /\ InitSftp
    /\ remote_mode = TRUE
    /\ tree = NoTree
    /\ directories \in RemoteRootLists
    /\ resolved_allowed_dirs = <<>>

\* validate_remote_path(path, remote['directories']) is called.
ValidateRemotePath ==
    /\ pc[0] = "idle"
    /\ call = NoCall
    /\ \E path \in RemotePaths :
          call' = Called("validate_remote_path", <<path, directories>>,
                         validate_remote_path(path, directories))
    /\ UNCHANGED <<restVars, directories, resolved_allowed_dirs, tree>>

NextRemotePath == ValidateRemotePath

SpecRemotePath == InitRemotePath /\ [][NextRemotePath]_vars

(***************************************************************************)
(* Discovery on its own.  Local mode scans the name space above; in remote *)
(* mode the name space maps every remote directory to the listing the      *)
(* server returns for it.                                                  *)
(***************************************************************************)
\* Path.suffix.lower() of the last segment of a local name.
suffix_lower(name) ==
    CASE name[Len(name)] \in {"a.mkv", "b.mkv", ".a.mkv"} -> "mkv"
      [] name[Len(name)] = "c.txt" -> "txt"
      [] OTHER -> ""

\* config: processing.include_extensions, local and remote.
ext_set == {"mkv"}
remote_ext_set == {<<"m">>}

\* Path.is_file(): a regular file, symlinks followed.
is_file(name) ==
    Resolve(name) # Unresolved /\ tree[Resolve(name)].kind = "file"

\* The non-directory entries os.walk reports for the directory d.
Filenames(d) ==
    {q \in DOMAIN tree : /\ Len(q) = Len(d) + 1
                         /\ SubSeq(q, 1, Len(d)) = d
                         /\ tree[q].kind \notin {"missing", "dir"}}

\* all_videos after the first n file names of one directory, lines 606-641.
RECURSIVE ScanFiles(_, _, _)
ScanFiles(filenames, n, all_videos) ==
    IF n = 0
    THEN all_videos
    ELSE LET before == ScanFiles(filenames, n - 1, all_videos)
             video_file == filenames[n]
         IN IF Len(before) >= MAX_DISCOVERED_FILES THEN before
            ELSE IF suffix_lower(video_file) \notin ext_set THEN before
            ELSE IF ~is_file(video_file) THEN before
            ELSE IF ~is_safe_path(video_file, directories) THEN before
            ELSE Append(before, video_file)

\* all_videos after the first k configured directories, lines 589-647;
\* order is the order in which the file system reports the entries.
RECURSIVE ScanDirs(_, _)
ScanDirs(k, order) ==
    IF k = 0
    THEN <<>>
    ELSE LET before == ScanDirs(k - 1, order)
             resolved_dir == Resolve(directories[k])
         IN IF resolved_dir = Unresolved
            THEN before
            ELSE IF tree[resolved_dir].kind # "dir"
            THEN before
            ELSE LET filenames == SelectSeq(order, LAMBDA q : q \in Filenames(resolved_dir))
                 IN ScanFiles(filenames, Len(filenames), before)

\* _discover_videos_local
discover_videos_local(order) == ScanDirs(Len(directories), order)

\* An entry of a remote listing: the name the server reports and its type.
RemoteEntry(filename, kind) == [filename |-> filename, kind |-> kind]

\* Entries a server may report: three matching files, a file whose reported
\* name is absolute, a file with another extension, a hidden file, a symlink.
RemoteEntries ==
    {RemoteEntry(<<"2", ".", "m">>, "file"),
     RemoteEntry(<<"m", ".", "m">>, "file"),
     RemoteEntry(<<"2", "2", ".", "m">>, "file"),
     RemoteEntry(<<"/", "2", ".", "m">>, "file"),
     RemoteEntry(<<"m", ".", "2">>, "file"),
     RemoteEntry(<<".", "m">>, "file"),
     RemoteEntry(<<"m", "2", ".", "m">>, "link")}

MaxListing == 3
Listings ==
    {l \in UNION {[1..n -> RemoteEntries] : n \in 0..MaxListing} :
        \A i, j \in DOMAIN l : l[i] = l[j] => i = j}

RemoteDirs == {RemoteRoot, RemoteM, RemoteMSlash, RemoteM2}
RemoteTrees == {[d \in RemoteDirs |-> l] : l \in Listings}

\* posixpath.join(a, b)
posixpath_join(a, b) ==
    IF StartsWith(b, Sep) THEN b
    ELSE IF a = <<>> \/ a[Len(a)] = "/" THEN a \o b
    ELSE a \o Sep \o b

\* posixpath.splitext(p)[1]: from the last dot of the last component, unless
\* only dots precede it.
splitext_ext(name) ==
    LET seps == {i \in DOMAIN name : name[i] = "/"}
        dots == {i \in DOMAIN name : name[i] = "."}
        sepIndex == IF seps = {} THEN 0 ELSE CHOOSE i \in seps : \A k \in seps : k <= i
        dotIndex == IF dots = {} THEN 0 ELSE CHOOSE i \in dots : \A k \in dots : k <= i
    IN IF dotIndex > sepIndex /\ \E i \in (sepIndex + 1)..(dotIndex - 1) : name[i] # "."
       THEN SubSeq(name, dotIndex, Len(name))
       ELSE <<>>

\* results after the first n entries of the listing of one directory,
\* sftp_ops.py lines 228-252.
RECURSIVE WalkRemote(_, _, _, _)
WalkRemote(directory, entries, n, results) ==
    IF n = 0
    THEN results
    ELSE LET before == WalkRemote(directory, entries, n - 1, results)
             entry == entries[n]
             remote_path == posixpath_join(directory, entry.filename)
             ext == splitext_ext(entry.filename)
         IN IF StartsWith(entry.filename, Dot) THEN before
            ELSE IF entry.kind # "file" THEN before
            ELSE IF ext # <<>> /\ Tail(ext) \in remote_ext_set
            THEN Append(before, remote_path)
            ELSE before

\* sftp_list_videos: results after the first k remote directories.
RECURSIVE sftp_list_videos(_, _)
sftp_list_videos(remote_dirs, k) ==
    IF k = 0
    THEN <<>>
    ELSE LET before == sftp_list_videos(remote_dirs, k - 1)
             entries == tree[remote_dirs[k]]
         IN WalkRemote(remote_dirs[k], entries, Len(entries), before)

\* Mutation of discover_videos_remote: the listed paths are returned as
\* they are.
discover_videos_remote_Unvalidated(conn) ==
    IF conn = "raise"
    THEN <<>>
    ELSE sftp_list_videos(directories, Len(directories))

\* _discover_videos_remote; conn = "raise" when ensure_connected raises.
discover_videos_remote(conn) ==
    IF conn = "raise"
    THEN <<>>
    ELSE LET all_videos == sftp_list_videos(directories, Len(directories))
         IN SelectSeq(all_videos, LAMBDA video_path :
                                     validate_remote_path(video_path, directories))

LocalRootLists == RootLists \cup {<<RootV, RootV2>>, <<RootV2, RootV, RootW>>}

\* A constructed daemon in local mode on any of the name spaces, or in
\* remote mode with any listing.
InitDiscovery ==
    /\ InitIdle
    /\ InitSftp
    /\ \/ /\ remote_mode = FALSE
          /\ tree \in Trees
          /\ directories \in LocalRootLists
          /\ resolved_allowed_dirs = ResolvedAllowedDirs(directories)
       \/ /\ remote_mode = TRUE
          /\ tree \in RemoteTrees
          /\ directories \in RemoteRootLists
          /\ resolved_allowed_dirs = <<>>

\* discover_videos() is called.
DiscoverVideos ==
    /\ pc[0] = "idle"
    /\ call = NoCall
    /\ IF remote_mode
       THEN \E conn \in {"ok", "raise"} :
               call' = Called("discover_videos", <<>>, discover_videos_remote(conn))
       ELSE \E order \in Orders(FileNames) :
               call' = Called("discover_videos", <<>>, discover_videos_local(order))
    /\ UNCHANGED <<restVars, directories, resolved_allowed_dirs, tree>>

NextDiscovery == DiscoverVideos

SpecDiscovery == InitDiscovery /\ [][NextDiscovery]_vars

(***************************************************************************)
(* A root that appears after construction: /w is configured and absent     *)
(* when the daemon is constructed, and is created before a later scan.     *)
(***************************************************************************)
LateRootLists == {<<RootW>>, <<RootV, RootW>>, <<RootV2, RootV, RootW>>}

InitLateRoot ==
    /\ InitIdle
    /\ InitSftp
    /\ remote_mode = FALSE
    /\ tree \in {t \in Trees : t[RootW] = Nothing}
    /\ directories \in LateRootLists
    /\ resolved_allowed_dirs = ResolvedAllowedDirs(directories)

\* The environment creates the directory /w; no code of the daemon runs.
RootAppears ==
    /\ call = NoCall
    /\ tree[RootW] = Nothing
    /\ tree' = [tree EXCEPT ![RootW] = Directory]
    /\ UNCHANGED <<restVars, call, directories, resolved_allowed_dirs>>

NextLateRoot == RootAppears \/ DiscoverVideos

SpecLateRoot == InitLateRoot /\ [][NextLateRoot]_vars

(***************************************************************************)
(* Discovery over name spaces with hidden entries: in local mode /v holds  *)
(* a.mkv, b.mkv and the hidden file .a.mkv; in remote mode the listings    *)
(* above, which include a hidden entry.                                    *)
(***************************************************************************)
HiddenFile == <<"v", ".a.mkv">>
HiddenFileNames == {FileV, FileVb, HiddenFile}

HiddenTrees ==
    {t \in [{RootV} \cup HiddenFileNames -> {RegularFile, Directory, Nothing, Denied}] :
        /\ t[RootV] = Directory
        /\ \A f \in HiddenFileNames : t[f] # Directory}

InitHidden ==
    /\ InitIdle
    /\ InitSftp
    /\ \/ /\ remote_mode = FALSE
          /\ tree \in HiddenTrees
          /\ directories = <<RootV>>
          /\ resolved_allowed_dirs = ResolvedAllowedDirs(directories)
       \/ /\ remote_mode = TRUE
          /\ tree \in RemoteTrees
          /\ directories \in RemoteRootLists
          /\ resolved_allowed_dirs = <<>>

\* discover_videos() is called.
DiscoverHidden ==
    /\ pc[0] = "idle"
    /\ call = NoCall
    /\ IF remote_mode
       THEN \E conn \in {"ok", "raise"} :
               call' = Called("discover_videos", <<>>, discover_videos_remote(conn))
       ELSE \E order \in Orders(HiddenFileNames) :
               call' = Called("discover_videos", <<>>, discover_videos_local(order))
    /\ UNCHANGED <<restVars, directories, resolved_allowed_dirs, tree>>

NextHidden == DiscoverHidden

SpecHidden == InitHidden /\ [][NextHidden]_vars

(***************************************************************************)
(* Progress of the daemon loop in local mode.  The loop runs for ever (no  *)
(* shutdown signal), the file system answers every call, and a new file    *)
(* /v/b.mkv appears at some moment and is eligible from then on.  The      *)
(* other files are eligible or not as the environment decides.             *)
(***************************************************************************)
NewFile == FileVb

progressFrame == <<configVars, ledgerVars, converting, processed_lock, diskVars, clock, pc,
                   pipeVars, boots, directories, resolved_allowed_dirs, sftpVars,
                   running, cycles, discoveries, sleep_elapsed, slept>>

\* The name space when the daemon is constructed: /v and /v2 are
\* directories, /v2/a.mkv is a regular file, /v/b.mkv does not exist yet.
StartTree ==
    [n \in Names |->
        IF n \in {RootV, RootV2} THEN Directory
        ELSE IF n \in {FileV2, FileWb, FileVtxt} THEN RegularFile
        ELSE Nothing]

InitProgress ==
    /\ InitIdle
    /\ InitSftp
    /\ remote_mode = FALSE
    /\ \E v \in {RegularFile, Nothing}, w \in {Directory, Nothing} :
          tree = [StartTree EXCEPT ![FileV] = v, ![RootW] = w]
    /\ directories \in {<<RootV>>, <<RootV2, RootV>>, <<RootV, RootW>>}
    /\ resolved_allowed_dirs = ResolvedAllowedDirs(directories)

\* The environment creates the file; no code of the daemon runs.
NewFileAppears ==
    /\ tree[NewFile] = Nothing
    /\ tree' = [tree EXCEPT ![NewFile] = RegularFile]
    /\ UNCHANGED <<progressFrame, call, discovery_cache, run_pc>>

\* The loop test of line 1120 with the running flag set.
LoopAgain ==
    /\ run_pc = "while"
    /\ run_pc' = "scan"
    /\ UNCHANGED <<progressFrame, call, discovery_cache, tree>>

\* should_process(v) of a discovered file: true for the new file, as the
\* environment decides for any other.
StaysEligible(v, others) == IF v = NewFile THEN is_file(v) ELSE others

\* Lines 1124-1134, the test of the cache: fresh is cache_age <
\* cache_max_age.
CacheTest(fresh) ==
    /\ run_pc = "scan"
    /\ \E others \in BOOLEAN :
          LET pending == \E i \in DOMAIN discovery_cache :
                            StaysEligible(discovery_cache[i], others)
          IN run_pc' = IF discovery_cache # <<>> /\ fresh /\ ~pending
                       THEN "process_batch"
                       ELSE "discover"
    /\ UNCHANGED <<progressFrame, call, discovery_cache, tree>>

\* The orders in which os.walk reports the entries: by name, ascending or
\* descending.
WalkOrders ==
    {<<FileV, FileVb, FileVtxt, FileV2, FileW, FileWb>>,
     <<FileWb, FileW, FileV2, FileVtxt, FileVb, FileV>>}

\* Lines 1136-1138: a new discovery fills the cache.
Rediscover ==
    /\ run_pc = "discover"
    /\ \E order \in WalkOrders : discovery_cache' = discover_videos_local(order)
    /\ run_pc' = "process_batch"
    /\ UNCHANGED <<progressFrame, call, tree>>

\* Line 1141 with lines 1071-1099: every file of the list that passes the
\* filter is submitted and convert_video runs for it; the call of the new
\* file is recorded.
BatchCycle ==
    /\ run_pc = "process_batch"
    /\ call' = IF \E i \in DOMAIN discovery_cache :
                     discovery_cache[i] = NewFile /\ StaysEligible(NewFile, FALSE)
               THEN Called("convert_video", <<NewFile>>, "attempted")
               ELSE call
    /\ run_pc' = "sleep"
    /\ UNCHANGED <<progressFrame, discovery_cache, tree>>

\* Lines 1147-1151 with the running flag set: scan_interval seconds pass.
SleepCycle ==
    /\ run_pc = "sleep"
    /\ run_pc' = "while"
    /\ UNCHANGED <<progressFrame, call, discovery_cache, tree>>

\* The steps of the main thread.
MainThread ==
    \/ RunCall
    \/ LoopAgain
    \/ \E fresh \in BOOLEAN : CacheTest(fresh)
    \/ Rediscover
    \/ BatchCycle
    \/ SleepCycle

NextProgress == NewFileAppears \/ MainThread

\* The main thread runs; every cycle lasts at least scan_interval seconds,
\* so the cache is found older than 3 * scan_interval again and again.
FairProgress == WF_vars(MainThread) /\ SF_vars(CacheTest(FALSE))

SpecProgress == InitProgress /\ [][NextProgress]_vars /\ FairProgress

(***************************************************************************)
(* Transfers on the shared SFTP connection: every pool job of a remote     *)
(* batch downloads its source (sftp_download) and later uploads its output *)
(* (sftp_upload) to its own remote path, concurrently with the others.     *)
(***************************************************************************)
\* remote.transfer_timeout, its default.
TRANSFER_TIMEOUT == 3600

transferFrame ==
    <<configVars, ledgerVars, processed_lock, diskVars, clock, pc, pipeVars, boots, runVars,
      call, directories, resolved_allowed_dirs, tree, connVars>>

XferGoto(j, label) == xfer' = [xfer EXCEPT ![j].pc = label]

\* What a call on the SFTP client does: it returns, raises IOError (an SFTP
\* error status, a socket timeout), or raises an exception that is not an
\* OSError (paramiko.SSHException when the server connection dropped).
ClientOutcomes == {"ok", "ioerror", "ssh_exception"}

\* sftp_download is called, line 312: ensure_connected.
DownloadCall(j) ==
    /\ xfer[j].pc = "idle"
    /\ \E connected \in BOOLEAN :
          xfer' = [xfer EXCEPT ![j].op = "get",
                               ![j].pc = IF connected THEN "get_settimeout" ELSE "failed",
                               ![j].raised = IF connected THEN "none"
                                             ELSE "SFTPConnectionError"]
    /\ UNCHANGED <<transferFrame, channel_timeout, remote_files>>

\* lines 314-315
GetSetTimeout(j) ==
    /\ xfer[j].pc = "get_settimeout"
    /\ channel_timeout' = Seconds(TRANSFER_TIMEOUT)
    /\ XferGoto(j, "getting")
    /\ UNCHANGED <<transferFrame, remote_files>>

\* line 316 and the handlers of lines 317-320: sftp.get ends.
GetEnd(j) ==
    /\ xfer[j].pc = "getting"
    /\ \E outcome \in ClientOutcomes :
          xfer' = [xfer EXCEPT ![j].pc = "get_finally",
                               ![j].raised = CASE outcome = "ok" -> "none"
                                               [] outcome = "ioerror" -> "SFTPOperationError"
                                               [] OTHER -> "SSHException"]
    /\ UNCHANGED <<transferFrame, channel_timeout, remote_files>>

\* The finally block, lines 321-326 and 368-373: the channel timeout is
\* removed; a failure of that is ignored.
ResetTimeout ==
    \E reset \in {"ok", "error"} :
        channel_timeout' = IF reset = "ok" THEN NoTimeout ELSE channel_timeout

GetFinally(j) ==
    /\ xfer[j].pc = "get_finally"
    /\ ResetTimeout
    /\ XferGoto(j, IF xfer[j].raised = "none" THEN "downloaded" ELSE "failed")
    /\ UNCHANGED <<transferFrame, remote_files>>

\* sftp_upload is called, lines 348-349: ensure_connected.
UploadCall(j) ==
    /\ xfer[j].pc = "downloaded"
    /\ \E connected \in BOOLEAN :
          xfer' = [xfer EXCEPT ![j].op = "put",
                               ![j].before = remote_files[j].final,
                               ![j].pc = IF connected THEN "put_settimeout" ELSE "failed",
                               ![j].raised = IF connected THEN "none"
                                             ELSE "SFTPConnectionError"]
    /\ UNCHANGED <<transferFrame, channel_timeout, remote_files>>

\* lines 351-352
PutSetTimeout(j) ==
    /\ xfer[j].pc = "put_settimeout"
    /\ channel_timeout' = Seconds(TRANSFER_TIMEOUT)
    /\ XferGoto(j, "put_open")
    /\ UNCHANGED <<transferFrame, remote_files>>

\* An exception of a client call inside the try of sftp_upload: IOError is
\* handled at lines 355-361, anything else only passes the finally block.
PutRaised(j, outcome) ==
    xfer' = [xfer EXCEPT ![j].pc = IF outcome = "ioerror" THEN "put_except" ELSE "put_finally",
                         ![j].raised = IF outcome = "ioerror" THEN "none" ELSE "SSHException"]

\* line 353, sftp.put: the temporary name is opened for writing.
PutOpen(j) ==
    /\ xfer[j].pc = "put_open"
    /\ \E outcome \in ClientOutcomes :
          IF outcome = "ok"
          THEN /\ remote_files' = [remote_files EXCEPT ![j].tmp = "partial"]
               /\ XferGoto(j, "putting")
          ELSE PutRaised(j, outcome) /\ UNCHANGED remote_files
    /\ UNCHANGED <<transferFrame, channel_timeout>>

\* line 353, sftp.put: the content has been written, or the write fails
\* part-way.
PutEnd(j) ==
    /\ xfer[j].pc = "putting"
    /\ \E outcome \in ClientOutcomes :
          IF outcome = "ok"
          THEN /\ remote_files' = [remote_files EXCEPT ![j].tmp = "complete"]
               /\ XferGoto(j, "renaming")
          ELSE PutRaised(j, outcome) /\ UNCHANGED remote_files
    /\ UNCHANGED <<transferFrame, channel_timeout>>

\* line 354, sftp.rename(tmp_remote, remote_path).
Rename(j) ==
    /\ xfer[j].pc = "renaming"
    /\ \E outcome \in ClientOutcomes :
          IF outcome = "ok"
          THEN /\ remote_files' = [remote_files EXCEPT ![j].final = remote_files[j].tmp,
                                                        ![j].tmp = "absent"]
               /\ XferGoto(j, "put_finally")
          ELSE PutRaised(j, outcome) /\ UNCHANGED remote_files
    /\ UNCHANGED <<transferFrame, channel_timeout>>

\* The handler of lines 355-361: best-effort removal of the temporary file,
\* then SFTPOperationError.
PutExcept(j) ==
    /\ xfer[j].pc = "put_except"
    /\ \E removed \in BOOLEAN :
          remote_files' = IF removed
                          THEN [remote_files EXCEPT ![j].tmp = "absent"]
                          ELSE remote_files
    /\ xfer' = [xfer EXCEPT ![j].pc = "put_finally",
                            ![j].remove_attempted = TRUE,
                            ![j].raised = "SFTPOperationError"]
    /\ UNCHANGED <<transferFrame, channel_timeout>>

PutFinally(j) ==
    /\ xfer[j].pc = "put_finally"
    /\ ResetTimeout
    /\ XferGoto(j, IF xfer[j].raised = "none" THEN "uploaded" ELSE "failed")
    /\ UNCHANGED <<transferFrame, remote_files>>

TransferStep(j) ==
    \/ DownloadCall(j)
    \/ GetSetTimeout(j)
    \/ GetEnd(j)
    \/ GetFinally(j)
    \/ UploadCall(j)
    \/ PutSetTimeout(j)
    \/ PutOpen(j)
    \/ PutEnd(j)
    \/ Rename(j)
    \/ PutExcept(j)
    \/ PutFinally(j)

\* A constructed daemon in remote mode; an output of an earlier run may be
\* at a job's remote final path.
InitTransfer ==
    /\ InitIdle
    /\ remote_mode = TRUE
    /\ directories = <<RemoteM>>
    /\ resolved_allowed_dirs = <<>>
    /\ tree = NoTree
    /\ channel_timeout = NoTimeout
    /\ xfer = [j \in Jobs |-> NoTransfer]
    /\ remote_files \in [Jobs -> [final : {"absent", "old"}, tmp : {"absent"}]]
    /\ InitConn

NextTransfer == \E j \in Jobs : TransferStep(j)

SpecTransfer == InitTransfer /\ [][NextTransfer]_vars

(***************************************************************************)
(* Configuration validation on its own: load_config returns the mapping of *)
(* the YAML file and validate_config checks it.  A configuration is kept   *)
(* flat, the keys of the "remote" section prefixed; a key that the file    *)
(* does not hold is Unset.  Strings that are matched, stripped or tested   *)
(* for a leading "/" are sequences of characters.                          *)
(***************************************************************************)
PyFloat(n) == [py |-> "float", n |-> n]
PyNaN == [py |-> "nan"]
PyList(items) == [py |-> "list", items |-> items]
Unset == [py |-> "unset"]

ALLOWED_CODECS == {"libx264", "libx265", "libvpx", "libvpx-vp9", "libaom-av1",
                   "copy", "mpeg4", "h264_nvenc", "hevc_nvenc", "h264_vaapi"}
ALLOWED_AUDIO_CODECS == {"aac", "libmp3lame", "libvorbis", "libopus", "copy", "ac3", "flac"}
ALLOWED_PRESETS == {"ultrafast", "superfast", "veryfast", "faster", "fast",
                    "medium", "slow", "slower", "veryslow"}
ALLOWED_LOG_LEVELS == {"DEBUG", "INFO", "WARNING", "ERROR", "CRITICAL"}
ALLOWED_EXTENSIONS == {"avi", "mkv", "mov", "mp4", "flv", "wmv", "mpg", "mpeg", "m4v",
                       "webm", "ts", "vob", "ogv", "3gp", "divx"}
MAX_WORKERS_LIMIT == 8
MIN_FREE_SPACE_GB_DEFAULT == 10
MIN_FREE_SPACE_GB_MIN == 1
MIN_FREE_SPACE_GB_MAX == 100
DecimalDigits == {"0", "1", "2", "3", "4", "5", "6", "7", "8", "9"}

\* AUDIO_BITRATE_RE.match(s) for ^\d{1,4}[kM]$ : without re.MULTILINE "$"
\* matches at the end of the string and just before a newline that ends it.
audio_bitrate_match(s) ==
    \E n \in 1..4 :
        /\ Len(s) >= n + 1
        /\ \A i \in 1..n : s[i] \in DecimalDigits
        /\ s[n + 1] \in {"k", "M"}
        /\ \/ Len(s) = n + 1
           \/ Len(s) = n + 2 /\ s[n + 2] = "\n"

\* isinstance(v, int) and isinstance(v, (int, float)): bool is a subclass of
\* int, and nan is a float.
isinstance_int(v) == v.py \in {"int", "bool"}
isinstance_number(v) == v.py \in {"int", "bool", "float", "nan"}
isinstance_str(v) == v.py = "str"
number(v) == IF v.py = "bool" THEN (IF v.b THEN 1 ELSE 0) ELSE v.n
\* v < k and v > k of a number: every comparison with nan is false.
less(v, k) == v.py # "nan" /\ number(v) < k
greater(v, k) == v.py # "nan" /\ number(v) > k

\* dict.get(key, default)
get(c, key, default) == IF c[key] = Unset THEN default ELSE c[key]

\* bool(v) of a configuration value.
truthy(v) ==
    CASE v.py = "list" -> v.items # <<>>
      [] v.py = "str" -> v.s # <<>>
      [] v.py = "bool" -> v.b
      [] v.py = "int" -> v.n # 0
      [] OTHER -> FALSE

\* str.strip() leaves nothing.
strip_empty(s) == \A i \in 1..Len(s) : s[i] = " "
\* PurePath.is_absolute() and posixpath.isabs() on a POSIX host.
is_absolute(s) == Len(s) > 0 /\ s[1] = "/"

\* "x not in <frozenset>": hashing a list raises TypeError.
not_in(v, allowed) ==
    IF v.py = "list" THEN "TypeError"
    ELSE IF v.py = "str" /\ v.s \in allowed THEN "ok"
    ELSE "ConfigValidationError"

\* The loop over include_extensions; only str has lower().
RECURSIVE extensions_check(_, _)
extensions_check(items, i) ==
    IF i > Len(items) THEN "ok"
    ELSE IF items[i].py # "str" THEN "AttributeError"
    ELSE IF Lower(items[i].s) \notin ALLOWED_EXTENSIONS THEN "ConfigValidationError"
    ELSE extensions_check(items, i + 1)

\* Path(d).is_absolute(); Path() of a value that is no string raises TypeError.
path_check(v) ==
    IF v.py # "str" THEN "TypeError"
    ELSE IF ~is_absolute(v.s) THEN "ConfigValidationError"
    ELSE "ok"

\* The loop over the local directories.
RECURSIVE directories_check(_, _)
directories_check(items, i) ==
    IF i > Len(items) THEN "ok"
    ELSE IF path_check(items[i]) # "ok" THEN path_check(items[i])
    ELSE directories_check(items, i + 1)

reject_if(cond) == IF cond THEN "ConfigValidationError" ELSE "ok"

DEFAULT_STATE_DIR == <<"/", "v">>

\* The checks of the "remote" section, in the order of the code.
remote_checks(c) ==
    LET host == get(c, "remote_host", PyStr(<<>>))
        user == get(c, "remote_user", PyStr(<<>>))
        port == get(c, "remote_port", PyInt(22))
        key_file == get(c, "remote_key_file", PyNone)
        remote_dirs == get(c, "remote_directories", PyList(<<>>))
        connect_timeout == get(c, "remote_connect_timeout", PyInt(30))
        transfer_timeout == get(c, "remote_transfer_timeout", PyInt(3600))
    IN << reject_if(~isinstance_str(host) \/ strip_empty(host.s)),
          reject_if(~isinstance_str(user) \/ strip_empty(user.s)),
          reject_if(~isinstance_int(port) \/ less(port, 1) \/ greater(port, 65535)),
          IF key_file = PyNone THEN "ok"
          ELSE reject_if(~isinstance_str(key_file) \/ strip_empty(key_file.s)
                         \/ ~is_absolute(key_file.s)),
          reject_if(remote_dirs.py # "list" \/ remote_dirs.items = <<>>),
          IF remote_dirs.py # "list" THEN "ok"
          ELSE reject_if(\E i \in DOMAIN remote_dirs.items :
                            \/ ~isinstance_str(remote_dirs.items[i])
                            \/ ~is_absolute(remote_dirs.items[i].s)),
          reject_if(~isinstance_number(connect_timeout) \/ less(connect_timeout, 1)),
          reject_if(~isinstance_number(transfer_timeout) \/ less(transfer_timeout, 60)) >>

\* The checks of validate_config, in the order of the code.
checks(c) ==
    LET crf == get(c, "crf", PyInt(23))
        audio_bitrate == get(c, "audio_bitrate", PyStr(<<>>))
        workers == get(c, "max_workers", PyInt(2))
        scan_seconds == get(c, "scan_interval", PyInt(300))
        min_free_space_gb == get(c, "min_free_space_gb", PyInt(MIN_FREE_SPACE_GB_DEFAULT))
        extensions == get(c, "include_extensions", PyList(<<>>))
        dirs == get(c, "directories", PyList(<<>>))
    IN << not_in(get(c, "codec", PyStr("")), ALLOWED_CODECS),
          not_in(get(c, "audio_codec", PyStr("")), ALLOWED_AUDIO_CODECS),
          not_in(get(c, "preset", PyStr("")), ALLOWED_PRESETS),
          reject_if(~isinstance_int(crf) \/ less(crf, 0) \/ greater(crf, 51)),
          reject_if(~audio_bitrate_match(audio_bitrate.s)),
          reject_if(truthy(get(c, "extra_options", PyList(<<>>)))),
          not_in(get(c, "log_level", PyStr("INFO")), ALLOWED_LOG_LEVELS),
          reject_if(~isinstance_int(workers) \/ less(workers, 1)
                    \/ greater(workers, MAX_WORKERS_LIMIT)),
          reject_if(~isinstance_number(scan_seconds) \/ less(scan_seconds, MIN_SCAN_INTERVAL)),
          reject_if(~isinstance_number(min_free_space_gb)
                    \/ less(min_free_space_gb, MIN_FREE_SPACE_GB_MIN)
                    \/ greater(min_free_space_gb, MIN_FREE_SPACE_GB_MAX)),
          extensions_check(extensions.items, 1),
          directories_check(dirs.items, 1),
          path_check(get(c, "work_dir", PyStr(<<>>))),
          path_check(get(c, "state_dir", PyStr(DEFAULT_STATE_DIR))),
          path_check(get(c, "log_file", PyStr(<<>>))) >>
       \o (IF truthy(get(c, "remote_enabled", PyBool(FALSE))) THEN remote_checks(c) ELSE <<>>)

\* The first check that raises decides the outcome.
RECURSIVE first_raised(_, _)
first_raised(outcomes, i) ==
    IF i > Len(outcomes) THEN "ok"
    ELSE IF outcomes[i] # "ok" THEN outcomes[i]
    ELSE first_raised(outcomes, i + 1)

\* validate_config(): what it raises, and self.config when it is left.
validate_config(c) == [raised |-> first_raised(checks(c), 1), config |-> c]

AbsPath == <<"/", "v">>
RelPath == <<".", "/", "v">>

\* The values a YAML file can give each key; the first is a valid one.
ConfigValues ==
    [codec |-> <<PyStr("libx264"), PyStr("copy"), PyStr("invalid_codec"), Unset, PyList(<<>>)>>,
     audio_codec |-> <<PyStr("aac"), PyStr("invalid_codec"), Unset>>,
     preset |-> <<PyStr("medium"), PyStr("placebo"), Unset>>,
     crf |-> <<PyInt(23), Unset, PyInt(0), PyInt(51), PyInt(0 - 1), PyInt(52), PyInt(99),
               PyBool(TRUE), PyFloat(23), PyStr("23")>>,
     audio_bitrate |-> <<PyStr(<<"1", "2", "8", "k">>), PyStr(<<"2", "M">>),
                         PyStr(<<"1", "2", "8">>), PyStr(<<"k">>),
                         PyStr(<<"1", "2", "3", "4", "5", "k">>),
                         PyStr(<<"1", "2", "8", "k", "\n">>),
                         PyStr(<<"1", "2", "8", "k", "\n", "\n">>), Unset>>,
     extra_options |-> <<PyList(<<>>), Unset, PyList(<<PyStr("-f")>>), PyStr(<<"-", "f">>)>>,
     log_level |-> <<PyStr("INFO"), Unset, PyStr("DEBUG"), PyStr("info"), PyStr("INVALID")>>,
     max_workers |-> <<PyInt(2), Unset, PyInt(1), PyInt(8), PyInt(0), PyInt(9), PyInt(10),
                       PyFloat(2)>>,
     scan_interval |-> <<PyInt(300), Unset, PyInt(30), PyInt(29), PyInt(10), PyFloat(60),
                         PyStr("60")>>,
     min_free_space_gb |-> <<PyInt(10), Unset, PyInt(1), PyInt(100), PyInt(0), PyInt(101),
                             PyFloat(50), PyNaN>>,
     include_extensions |-> <<PyList(<<PyStr("mp4")>>), Unset, PyList(<<PyStr("MKV")>>),
                              PyList(<<PyStr("exe")>>), PyList(<<PyStr("mp4"), PyStr("exe")>>),
                              PyList(<<PyStr("3gp"), PyInt(264)>>)>>,
     directories |-> <<PyList(<<PyStr(AbsPath)>>), Unset, PyList(<<PyStr(RelPath)>>),
                       PyList(<<PyStr(AbsPath), PyStr(RelPath)>>)>>,
     work_dir |-> <<PyStr(AbsPath), PyStr(RelPath), Unset>>,
     state_dir |-> <<PyStr(AbsPath), Unset, PyStr(RelPath)>>,
     log_file |-> <<PyStr(AbsPath), PyStr(RelPath), Unset>>,
     remote_enabled |-> <<PyBool(FALSE), Unset, PyBool(TRUE)>>,
     remote_host |-> <<PyStr(<<"h">>), Unset, PyStr(<<" ">>), PyInt(1)>>,
     remote_user |-> <<PyStr(<<"u">>), Unset, PyStr(<<>>)>>,
     remote_port |-> <<PyInt(22), Unset, PyInt(0), PyInt(65535), PyInt(65536), PyStr("22")>>,
     remote_key_file |-> <<PyStr(AbsPath), Unset, PyStr(RelPath), PyStr(<<" ">>), PyInt(1)>>,
     remote_directories |-> <<PyList(<<PyStr(AbsPath)>>), Unset, PyList(<<>>),
                              PyList(<<PyStr(RelPath)>>), PyStr(AbsPath)>>,
     remote_connect_timeout |-> <<PyInt(30), Unset, PyInt(1), PyInt(0)>>,
     remote_transfer_timeout |-> <<PyInt(3600), Unset, PyInt(60), PyInt(59)>>]

ConfigKeys == DOMAIN ConfigValues

\* A configuration that passes, as the minimal configuration of the tests.
ValidConfig == [key \in ConfigKeys |-> ConfigValues[key][1]]

\* The same with the remote section enabled.
ValidRemoteConfig == [ValidConfig EXCEPT !["remote_enabled"] = PyBool(TRUE)]

\* The configurations that differ from one of the two in at most
\* MaxOverrides keys.
RECURSIVE Overridden(_)
Overridden(n) ==
    IF n = 0 THEN {ValidConfig, ValidRemoteConfig}
    ELSE LET fewer == Overridden(n - 1)
         IN fewer \cup UNION { { [c EXCEPT ![key] = ConfigValues[key][i]] :
                                   i \in DOMAIN ConfigValues[key] } :
                                 <<c, key>> \in fewer \X ConfigKeys }

\* __init__ up to "self.config = self.load_config(config_path)".
LoadConfig ==
    /\ call = NoCall
    /\ \E c \in Overridden(MaxOverrides) : call' = Called("load_config", <<"config.yaml">>, c)
    /\ UNCHANGED <<restVars, directories, resolved_allowed_dirs, tree>>

\* __init__ goes on with "self.validate_config()".
ValidateConfig ==
    /\ call.fn = "load_config"
    /\ call' = Called("validate_config", <<call.result>>, validate_config(call.result))
    /\ UNCHANGED <<restVars, directories, resolved_allowed_dirs, tree>>

\* The daemon under construction: nothing but the arguments is set yet.
InitConfig ==
    /\ InitIdle
    /\ InitSftp
    /\ remote_mode = FALSE
    /\ directories = <<>>
    /\ resolved_allowed_dirs = <<>>
    /\ tree = NoTree

NextConfig == LoadConfig \/ ValidateConfig

SpecConfig == InitConfig /\ [][NextConfig]_vars

(***************************************************************************)
(* The process: main() run on a command line, a configuration file and an  *)
(* environment; the exit status of every run is kept.                      *)
(***************************************************************************)
\* A run of the process: whether args.config is a regular file, the mapping
\* the file holds, the two flags, and whether the rest of the constructor
\* and run() return or raise.
Invocations ==
    [file : {"missing", "present"},
     config : {ValidConfig, [ValidConfig EXCEPT !["codec"] = PyStr("invalid_codec")]},
     validate_config : BOOLEAN,
     dry_run : BOOLEAN,
     construct : {"ok", "raised"},
     run : {"returned", "raised"}]

\* The exit status of main(): sys.exit(n), 0 when main returns, and 1 when an
\* exception that main does not handle ends the interpreter.
main(inv) ==
    IF inv.file = "missing" THEN 1
    ELSE LET raised == validate_config(inv.config).raised
         IN IF raised = "ConfigValidationError" THEN 1
            ELSE IF raised # "ok" THEN 1
            ELSE IF inv.validate_config THEN 0
            ELSE IF inv.construct = "raised" THEN 1
            ELSE IF inv.run = "raised" THEN 1
            ELSE 0

\* The process is started once more.
Main ==
    /\ \/ call = NoCall
       \/ call.fn = "main" /\ Len(call.args) < MaxRuns
    /\ \E inv \in Invocations :
          call' = Called("main",
                         (IF call = NoCall THEN <<>> ELSE call.args) \o <<inv>>,
                         (IF call = NoCall THEN <<>> ELSE call.result) \o <<main(inv)>>)
    /\ UNCHANGED <<restVars, directories, resolved_allowed_dirs, tree>>

NextMain == Main

SpecMain == InitConfig /\ [][NextMain]_vars

(***************************************************************************)
(* Properties of the pipeline and of the batch scheduler                   *)
(***************************************************************************)
\* Job j is between its Claim and the end of its Release.
InPipeline(j) == pc[j] \notin {"none", "queued", "cleanup", "returned", "raised"}

\* Job j calls subprocess.run in this step.
TranscoderInvoked(j) == pc[j] = "transcode" /\ pc'[j] \in {"finalize", "release"}

\* convert_video of job j returns in this step.
Returns(j) == pc[j] = "cleanup" /\ pc'[j] = "returned"

\* The ledger entry of identity h was committed and saved in this run.
Committed(h) ==
    /\ h \in processed_files
    /\ saved_ledger.boot = boots
    /\ h \in saved_ledger.files

\* C1: within one process_batch call no two workers are between Claim and
\* Release for the same identity at the same time.
C1_OneWorkerPerIdentity ==
    \A j, k \in Jobs :
        (j # k /\ InPipeline(j) /\ InPipeline(k)) => Hash(j) # Hash(k)

\* C2: Idempotence.  Once the ledger entry of a file has been committed, no
\* later step of the same run invokes the transcoder on that file.
C2_Idempotence ==
    [][\A j \in Jobs : TranscoderInvoked(j) => ~Committed(Hash(j))]_vars

\* C3: Restarts never reconvert.  A file whose output was at its final path
\* when the daemon stopped is never passed to the transcoder after the
\* restart.
C3_RestartsNeverReconvert ==
    [][\A j \in Jobs : TranscoderInvoked(j) => job[j].path \notin stop_outputs]_vars

\* C4: an attempt that returns Failed leaves the identity out of the
\* in-memory ledger.
C4_FailedStaysEligible ==
    [][\A j \in Jobs :
          (Returns(j) /\ job[j].result = "Failed") => Hash(j) \notin processed_files']_vars

\* C5: Release is unconditional.  When a convert_video call returns, its
\* identity is not in the in-flight set; and no step of an attempt whose
\* transcoder timed out changes the ledger.
C5_ReleaseUnconditional ==
    [][\A j \in Jobs :
          /\ Returns(j) => Hash(j) \notin converting'
          /\ (job[j].timeout /\ pc'[j] # pc[j] /\ pc'[0] # "down") =>
                 processed_files' = processed_files]_vars

\* C6: convert_video never propagates an exception to the scheduler.
C6_NeverPropagates == \A j \in Jobs : pc[j] # "raised"

\* Job j calls sftp_download in this step.
Fetches(j) == pc[j] = "download" /\ pc'[j] \in {"transcode", "release"}

\* Job j takes a step of its attempt.
Steps(j) == pc[j] \notin {"none", "queued"} /\ pc'[j] # pc[j] /\ pc'[0] = pc[0]

\* C16: Re-validation precedes I/O.  In a non-dry-run attempt the fetch and
\* the transcoder are only invoked after the candidate passed validation in
\* the same attempt; an attempt whose validation fails is Failed, and no
\* step of it invokes the transcoder, creates a file or changes the ledger.
C16_RevalidationPrecedesIO ==
    [][\A j \in Jobs :
          ~dry_run =>
             /\ TranscoderInvoked(j) => job[j].validated
             /\ Fetches(j) => job[j].validated
             /\ (pc[j] = "validate" /\ pc'[j] = "release") =>
                    (job'[j].result = "Failed" /\ ~job'[j].validated)
             /\ (Steps(j) /\ ~job'[j].validated) =>
                    /\ fs' = fs
                    /\ work' \subseteq work
                    /\ processed_files' = processed_files
                    /\ conversion_times' = conversion_times
                    /\ db_file' = db_file
                    /\ job'[j].result \in {"none", "Failed"}]_vars

\* A non-dry-run attempt on a candidate that was eligible has ended Failed
\* at its re-validation.
C16_Witness ==
    \E j \in Jobs :
        /\ ~dry_run
        /\ pc[j] = "returned"
        /\ ~job[j].validated
        /\ job[j].result = "Failed"
        /\ fs[with_suffix(job[j].path, "m4v")] = Missing
        /\ Hash(j) \notin processed_files

(***************************************************************************)
(* Properties of the ledger store                                          *)
(***************************************************************************)
SaveFailsNow(t) == pc[t] # "save_raised" /\ pc'[t] = "save_raised"

Corrupt(file) ==
    /\ file.kind = "json"
    /\ CASE file.doc.t = "object" ->
              \E i \in DOMAIN file.doc.members : ~IsIdentity(file.doc.members[i].k)
         [] file.doc.t = "array" ->
              \E i \in DOMAIN file.doc.items :
                  \/ file.doc.items[i].t # "string"
                  \/ ~IsIdentity(file.doc.items[i].s)
         [] OTHER -> TRUE

\* C8: Corruption fail-safe.  A daemon constructed on a ledger file with a key
\* or item outside the identity pattern, or with a top-level scalar, has an
\* empty ledger and its construction did not raise.
C8_CorruptionFailSafe ==
    (Corrupt(db_file) /\ pc[0] # "down") =>
        (pc[0] # "init_failed" /\ processed_files = {})

\* C9: Ledger load failures are never fatal.  A daemon constructed on a
\* ledger file that cannot be read or parsed has an empty ledger and its
\* construction did not raise.
C9_LoadNeverFatal ==
    (db_file.kind \in {"unreadable", "malformed"} /\ pc[0] # "down") =>
        (pc[0] # "init_failed" /\ processed_files = {})

\* A ledger of valid identities, each with an entry holding timestamp,
\* duration_seconds and optionally dry_run.
WellFormed(L) ==
    \A h \in L.files :
        /\ IsIdentity(h)
        /\ h \in DOMAIN L.times
        /\ L.times[h].py = "dict"
        /\ {"timestamp", "duration_seconds"} \subseteq DOMAIN L.times[h].d
        /\ DOMAIN L.times[h].d \subseteq {"timestamp", "duration_seconds", "dry_run"}
        /\ L.times[h].d["timestamp"].py = "int"
        /\ L.times[h].d["duration_seconds"].py = "int"
        /\ "dry_run" \in DOMAIN L.times[h].d => L.times[h].d["dry_run"].py = "bool"

FreshDaemonAfterSave ==
    /\ pc[0] = "idle"
    /\ saved_ledger.boot # 0
    /\ boots > saved_ledger.boot

\* C10: Ledger round-trip.  A daemon constructed after a well-formed ledger
\* was saved holds the same identity set and, for every identity, the same
\* metadata as the ledger that was saved.
C10_LedgerRoundTrip ==
    (FreshDaemonAfterSave /\ WellFormed(saved_ledger)) =>
        /\ processed_files = saved_ledger.files
        /\ \A h \in processed_files :
              /\ h \in DOMAIN conversion_times
              /\ conversion_times[h] = saved_ledger.times[h]

\* A fresh daemon has loaded a saved well-formed ledger of two identities,
\* one of them with a dry_run flag.
C10_Witness ==
    /\ FreshDaemonAfterSave
    /\ WellFormed(saved_ledger)
    /\ Cardinality(saved_ledger.files) = 2
    /\ \E h \in saved_ledger.files : "dry_run" \in DOMAIN saved_ledger.times[h].d

\* A stored legacy ledger: a flat array of valid identities.
LegacyArray(file) ==
    /\ file.kind = "json"
    /\ file.doc.t = "array"
    /\ \A i \in DOMAIN file.doc.items :
          file.doc.items[i].t = "string" /\ IsIdentity(file.doc.items[i].s)

ArrayItems(file) == {file.doc.items[i].s : i \in DOMAIN file.doc.items}

\* A stored entry that holds a timestamp and nothing else.
TimestampOnly(v) ==
    /\ v.t = "object"
    /\ Len(v.members) = 1
    /\ v.members[1].k = "timestamp"
    /\ v.members[1].v.t = "number"

\* C11: Legacy migration.  A daemon constructed on a flat array of valid
\* identities holds exactly the array items and no duration metadata for any
\* of them; the next save that completes replaces the array by an object
\* that maps each of these identities to an entry holding only a timestamp.
C11_LegacyMigration ==
    [][LegacyArray(db_file) =>
          /\ Construct =>
                /\ pc'[0] = "idle"
                /\ processed_files' = ArrayItems(db_file)
                /\ \A h \in processed_files' :
                      \/ h \notin DOMAIN conversion_times'
                      \/ "duration_seconds" \notin DOMAIN conversion_times'[h].d
          /\ (pc[0] = "save_replace" /\ pc'[0] = "save_ok") =>
                /\ db_file'.kind = "json"
                /\ db_file'.doc.t = "object"
                /\ {db_file'.doc.members[i].k : i \in DOMAIN db_file'.doc.members}
                       = ArrayItems(db_file)
                /\ Len(db_file'.doc.members) = Cardinality(ArrayItems(db_file))
                /\ \A i \in DOMAIN db_file'.doc.members :
                      TimestampOnly(db_file'.doc.members[i].v)]_vars

\* The daemon loaded a legacy array of two identities and its first save has
\* written the temporary file and is about to replace the array.
C11_Witness ==
    /\ LegacyArray(db_file)
    /\ Cardinality(ArrayItems(db_file)) = 2
    /\ processed_files = ArrayItems(db_file)
    /\ pc[0] = "save_replace"
    /\ tmp_file.kind = "json"

\* The conditions under which a candidate is to be converted: identity not in
\* the ledger and not in flight, extension other than the target extension,
\* no sibling with the target extension, size above zero and within the
\* maximum.
Eligible(p) ==
    /\ get_file_hash(p) \notin processed_files
    /\ get_file_hash(p) \notin converting
    /\ p.ext \notin {"m4v", "M4V"}
    /\ fs[with_suffix(p, "m4v")] = Missing
    /\ fs[p] # Missing
    /\ fs[p].gib > 0 \/ fs[p].rem > 0
    /\ fs[p].gib < MAX_FILE_SIZE_GIB \/ (fs[p].gib = MAX_FILE_SIZE_GIB /\ fs[p].rem = 0)

\* C12: Eligibility decision.  should_process returns true only for a
\* candidate that satisfies every condition, and returns true for every such
\* candidate whose stat succeeds; so a zero-byte or oversized candidate is
\* never accepted.
C12_EligibilityDecision ==
    call.fn = "should_process" =>
        LET p == call.args[1]
            env == call.args[2]
        IN /\ call.result = "true" => Eligible(p)
           /\ (Eligible(p) /\ env.stat = "ok") => call.result = "true"

\* C13: Eligibility fails closed.  Whenever the stat of the candidate fails,
\* for any reason, should_process returns false: it neither returns true
\* nor raises.
C13_EligibilityFailsClosed ==
    call.fn = "should_process" =>
        LET p == call.args[1]
            env == call.args[2]
        IN (env.stat # "ok" \/ fs[p] = Missing) => call.result = "false"

\* P resolves and its canonical form equals or is nested under the canonical
\* form of some root of R.
Contained(P, R) ==
    /\ Resolve(P) # Unresolved
    /\ \E i \in DOMAIN R :
          /\ Resolve(R[i]) # Unresolved
          /\ LET root == Resolve(R[i])
                 canon == Resolve(P)
             IN /\ Len(root) <= Len(canon)
                /\ \A k \in 1..Len(root) : canon[k] = root[k]

\* C14: Local path containment.  _is_safe_path(P, R) returns true exactly
\* when P resolves and its canonical form equals or is nested under the
\* canonical form of some root of the list R passed by the caller.
C14_LocalContainment ==
    call.fn = "_is_safe_path" =>
        (call.result <=> Contained(call.args[1], call.args[2]))

\* N equals the prefix A or lies beneath it at a path-separator boundary.
EqualsOrBeneath(N, A) ==
    /\ Len(A) <= Len(N)
    /\ \A k \in 1..Len(A) : N[k] = A[k]
    /\ \/ Len(N) = Len(A)
       \/ A[Len(A)] = "/"
       \/ N[Len(A) + 1] = "/"

\* C15: Remote path containment.  validate_remote_path(P, R) returns true
\* exactly when the normalized P is absolute, has no '..' segment, and equals
\* some normalized prefix of R or lies beneath it at a path-separator
\* boundary; the root '/' and prefixes with a trailing slash included.
C15_RemoteContainment ==
    call.fn = "validate_remote_path" =>
        LET N == normpath(call.args[1])
            R == call.args[2]
        IN call.result <=>
              /\ N[1] = "/"
              /\ \A i \in DOMAIN Split(N) : Split(N)[i] # DotDot
              /\ \E i \in DOMAIN R : EqualsOrBeneath(N, normpath(R[i]))

\* C17: Discovery validation is mandatory.  Every candidate returned by
\* discover_videos lies, by its canonical location, under a configured root
\* (local mode), or, by its normalized path, at or beneath an allowed prefix
\* (remote mode).
C17_DiscoveryValidation ==
    call.fn = "discover_videos" =>
        \A i \in DOMAIN call.result :
            IF remote_mode
            THEN LET N == normpath(call.result[i])
                 IN /\ N[1] = "/"
                    /\ \A k \in DOMAIN Split(N) : Split(N)[k] # DotDot
                    /\ \E r \in DOMAIN directories :
                          EqualsOrBeneath(N, normpath(directories[r]))
            ELSE Contained(call.result[i], directories)

\* A remote scan met a file whose reported name is absolute and returned
\* another file of the same listing.
C17_Witness ==
    /\ call.fn = "discover_videos"
    /\ remote_mode
    /\ call.result # <<>>
    /\ \E d \in DOMAIN directories :
          \E i \in DOMAIN tree[directories[d]] :
              /\ tree[directories[d]][i].kind = "file"
              /\ StartsWith(tree[directories[d]][i].filename, Sep)

\* C18: Discovery cap.  One discover_videos call returns at most
\* MAX_DISCOVERED_FILES candidates, in local and in remote mode.
C18_DiscoveryCap ==
    call.fn = "discover_videos" => Len(call.result) <= MAX_DISCOVERED_FILES

\* The pool jobs of the running batch: one per candidate that passed the
\* eligibility filter.
Submitted == {j \in Jobs : pc[j] # "none"}

\* C19: Batch isolation.  Every candidate that passed the filter has its
\* conversion attempted at most once while the batch runs, whatever the
\* other attempts do; process_batch is left only when every one of them has
\* been attempted exactly once and has finished (returned or raised), and it
\* is left by a normal return.
C19_BatchIsolation ==
    [][/\ \A j \in Jobs : job'[j].attempts <= 1
       /\ (pc[0] = "batch" /\ pc'[0] # "batch") =>
              /\ pc'[0] = "idle"
              /\ \A j \in Submitted : job[j].attempts = 1 /\ Finished(j)]_vars

\* Both candidates of a batch have finished, the first by an exception and
\* the second with a completed conversion.
C19_Witness ==
    /\ pc[0] = "batch"
    /\ Submitted = {1, 2}
    /\ pc[1] = "raised"
    /\ pc[2] = "returned"
    /\ job[2].result = "Success"
    /\ job[1].attempts = 1
    /\ job[2].attempts = 1

\* C20: Cycle crash isolation.  In the daemon loop (not dry-run) run() is
\* left only by the loop test finding the running flag false, so no
\* exception of a cycle ends it; the handler of a cycle's exception is left
\* only after the fixed cooldown and back to the loop test; and the loop test
\* with the running flag true starts another cycle.
C20_CycleCrashIsolation ==
    [][~dry_run =>
          /\ (InLoop /\ ~InLoop') => (run_pc = "while" /\ ~running /\ run_pc' = "stopped")
          /\ (run_pc = "except" /\ run_pc' # "except") =>
                 (run_pc' = "while" /\ slept' = COOLDOWN)
          /\ (run_pc = "while" /\ running /\ run_pc' # "while") =>
                 (run_pc' = "scan" /\ cycles' = cycles + 1)]_vars

\* A second cycle has started right after the cooldown that followed an
\* exception of the first one.
C20_Witness ==
    /\ ~dry_run
    /\ running
    /\ run_pc = "scan"
    /\ cycles = 2
    /\ slept = COOLDOWN

\* C21: Graceful shutdown.  While the running flag is false no scan cycle
\* begins; a run() that has begun no cycle has called no discovery and has
\* not slept.
C21_GracefulShutdown ==
    /\ [][~running => cycles' = cycles]_vars
    /\ [](cycles = 0 => (discoveries = 0 /\ slept = 0))

\* The in-memory ledger holds an entry flagged dry_run for identity h.
DryRunEntry(h) ==
    /\ h \in processed_files
    /\ h \in DOMAIN conversion_times
    /\ "dry_run" \in DOMAIN conversion_times[h].d
    /\ conversion_times[h].d["dry_run"] = PyBool(TRUE)

C23_BestEffortFinalization ==
    [][\A j \in Jobs :
          /\ (pc[j] = "post" /\ pc'[j] # "post" /\ pc'[0] = pc[0]) =>
                 (pc'[j] = "commit" /\ fs'[with_suffix(job[j].path, "m4v")] # Missing)
          /\ (job[j].post_failed /\ job'[j].result = "Failed" /\ job[j].result # "Failed") =>
                 pc[j] = "save_raised"
          /\ (job[j].post_failed /\ pc[j] = "save_ok" /\ pc'[j] = "release") =>
                 /\ job'[j].result = "Success"
                 /\ Hash(j) \in processed_files
                 /\ Hash(j) \in saved_ledger.files]_vars

\* An attempt has returned Success although the copy of the timestamps or
\* the deletion of the original failed.
C23_Witness ==
    \E j \in Jobs :
        /\ pc[j] = "returned"
        /\ job[j].post_failed
        /\ job[j].result = "Success"
        /\ Hash(j) \in processed_files
        /\ fs[with_suffix(job[j].path, "m4v")] # Missing

\* C24: Atomic publish.  The remote final path never holds a partially
\* written file; and when sftp_upload has failed, the content at the final
\* path is what it was before the call, removal of the temporary file was
\* attempted, and the exception raised is SFTPOperationError.
C24_AtomicPublish ==
    \A j \in Jobs :
        /\ remote_files[j].final # "partial"
        /\ (xfer[j].op = "put" /\ xfer[j].pc = "failed") =>
               /\ remote_files[j].final = xfer[j].before
               /\ xfer[j].remove_attempted
               /\ xfer[j].raised = "SFTPOperationError"

\* A download or an upload of job j is in progress on the connection.
InProgress(j) == xfer[j].pc \in {"getting", "putting", "renaming"}

\* C30: Transfers stay bounded under concurrency.  Whenever a fetch or a
\* publish is in progress on the shared connection, the channel timeout in
\* force is the configured transfer timeout.
C30_TransfersBounded ==
    \A j \in Jobs : InProgress(j) => channel_timeout = Seconds(TRANSFER_TIMEOUT)


(***************************************************************************)
(* Properties of configuration validation and of the process interface     *)
(***************************************************************************)
\* C25: constructing the daemon raises ConfigValidationError if and only if
\* at least one value of the configuration is outside its allowlist, pattern
\* or bound (codec, audio_codec, preset, crf outside 0..51, audio_bitrate not
\* one to four digits followed by k or M, non-empty extra_options, log_level,
\* max_workers outside 1..8, scan_interval below 30, min_free_space_gb
\* outside 1..100, include_extensions, a path that is not absolute, the
\* remote fields when remote is enabled); validation leaves every value as
\* the file gave it; a configuration with non-empty extra_options never
\* passes.
C25_ConfigValidation ==
    call.fn = "validate_config" =>
        LET c == call.args[1]
            raised == call.result.raised
            listed(v, allowed) == v.py = "str" /\ v.s \in allowed
            integer_in(v, low, high) ==
                v.py \in {"int", "bool"} /\ number(v) >= low /\ number(v) <= high
            number_in(v, low, high) ==
                v.py \in {"int", "bool", "float"} /\ number(v) >= low /\ number(v) <= high
            bitrate(v) ==
                /\ v.py = "str"
                /\ Len(v.s) \in 2..5
                /\ \A i \in 1..(Len(v.s) - 1) : v.s[i] \in DecimalDigits
                /\ v.s[Len(v.s)] \in {"k", "M"}
            non_empty(v) == v.py \in {"list", "str"} /\ (IF v.py = "list" THEN v.items ELSE v.s) # <<>>
            absolute(v) == v.py = "str" /\ v.s # <<>> /\ v.s[1] = "/"
            named(v) == v.py = "str" /\ \E i \in DOMAIN v.s : v.s[i] # " "
            list_of(v, P(_)) == v.py = "list" /\ \A i \in DOMAIN v.items : P(v.items[i])
            extension(v) == v.py = "str" /\ Lower(v.s) \in ALLOWED_EXTENSIONS
            remote_in_bounds ==
                /\ named(get(c, "remote_host", PyStr(<<>>)))
                /\ named(get(c, "remote_user", PyStr(<<>>)))
                /\ integer_in(get(c, "remote_port", PyInt(22)), 1, 65535)
                /\ c["remote_key_file"] # Unset =>
                      named(c["remote_key_file"]) /\ absolute(c["remote_key_file"])
                /\ list_of(get(c, "remote_directories", PyList(<<>>)), absolute)
                /\ get(c, "remote_directories", PyList(<<>>)) # PyList(<<>>)
                /\ ~less(get(c, "remote_connect_timeout", PyInt(30)), 1)
                /\ ~less(get(c, "remote_transfer_timeout", PyInt(3600)), 60)
            in_bounds ==
                /\ listed(get(c, "codec", PyStr("")), ALLOWED_CODECS)
                /\ listed(get(c, "audio_codec", PyStr("")), ALLOWED_AUDIO_CODECS)
                /\ listed(get(c, "preset", PyStr("")), ALLOWED_PRESETS)
                /\ integer_in(get(c, "crf", PyInt(23)), 0, 51)
                /\ bitrate(get(c, "audio_bitrate", PyStr(<<>>)))
                /\ ~non_empty(get(c, "extra_options", PyList(<<>>)))
                /\ listed(get(c, "log_level", PyStr("INFO")), ALLOWED_LOG_LEVELS)
                /\ integer_in(get(c, "max_workers", PyInt(2)), 1, 8)
                /\ LET v == get(c, "scan_interval", PyInt(300))
                   IN v.py \in {"int", "bool", "float"} /\ number(v) >= 30
                /\ number_in(get(c, "min_free_space_gb", PyInt(10)), 1, 100)
                /\ list_of(get(c, "include_extensions", PyList(<<>>)), extension)
                /\ list_of(get(c, "directories", PyList(<<>>)), absolute)
                /\ absolute(get(c, "work_dir", PyStr(<<>>)))
                /\ absolute(get(c, "state_dir", PyStr(DEFAULT_STATE_DIR)))
                /\ absolute(get(c, "log_file", PyStr(<<>>)))
                /\ get(c, "remote_enabled", PyBool(FALSE)) = PyBool(TRUE) => remote_in_bounds
        IN /\ (raised = "ConfigValidationError") <=> ~in_bounds
           /\ call.result.config = c
           /\ non_empty(get(c, "extra_options", PyList(<<>>))) => raised # "ok"


\* C26: the process exits with three mutually distinct statuses for
\* "configuration invalid", "config file missing" and "normal/clean
\* shutdown" (a successful validate-only run included): two runs that end
\* for two different ones of these reasons have different exit statuses.
C26_ExitStatus ==
    call.fn = "main" =>
        LET reason(inv) ==
                IF inv.file = "missing" THEN "config file missing"
                ELSE IF validate_config(inv.config).raised = "ConfigValidationError"
                     THEN "configuration invalid"
                ELSE IF validate_config(inv.config).raised # "ok" THEN "other"
                ELSE IF inv.validate_config THEN "clean"
                ELSE IF inv.construct = "ok" /\ inv.run = "returned" THEN "clean"
                ELSE "other"
        IN \A i, k \in DOMAIN call.args :
              (/\ reason(call.args[i]) # "other"
               /\ reason(call.args[k]) # "other"
               /\ reason(call.args[i]) # reason(call.args[k]))
              => call.result[i] # call.result[k]


(***************************************************************************)
(* Properties of concurrent saves, of shutdown and of the scan cycle       *)
(***************************************************************************)
\* The save of thread t holds the lock.
Saving(t) == pc[t] \in {"save_dump", "save_replace"}

\* The identities that have an entry in a stored file.
Keys(file) ==
    IF file.kind = "json" /\ file.doc.t = "object"
    THEN {file.doc.members[i].k : i \in DOMAIN file.doc.members}
    ELSE {}

\* The file is a mapping that one save wrote in full: every identity of the
\* ledger at that save, once, with the metadata the ledger held for it.
CompleteMapping(file) ==
    \E o \in Orders(saved_ledger.files), now \in 0..MaxClock :
        file = Document(DumpLedger(o, saved_ledger.times, now))

\* No worker is between its commit and the end of its save.
NoSavePending == \A t \in Threads : pc[t] \notin {"save_open", "save_dump", "save_replace"}

\* C27: no lost ledger update.  Under every interleaving of the workers of a
\* batch, at most one save is between taking and releasing the lock; the
\* ledger file is at every instant absent (its pre-run content) or a
\* complete mapping written by one save; the identity of every conversion
\* that ended Success is in the file; and the file holds every identity of
\* the in-memory ledger from the step in which the last pending save ends
\* without an error until the next commit.
C27_NoLostUpdate ==
    /\ [](\A t, u \in Threads : (Saving(t) /\ Saving(u)) => t = u)
    /\ [](db_file = Absent \/ CompleteMapping(db_file))
    /\ [](\A j \in Jobs : job[j].result = "Success" => Hash(j) \in Keys(db_file))
    /\ [][/\ (~NoSavePending /\ NoSavePending' /\ \A t \in Threads : ~SaveFailsNow(t))
              => Keys(db_file') = processed_files'
          /\ (NoSavePending /\ NoSavePending')
              => (db_file' = db_file /\ processed_files' = processed_files)]_vars

\* The two workers of a pool of two have each converted a file of the same
\* batch and have each saved the ledger.
C27_Witness ==
    /\ max_workers = 2
    /\ \A j \in Jobs : job[j].result = "Success" /\ pc[j] = "returned"
    /\ Cardinality(processed_files) = 2
    /\ Keys(db_file) = processed_files


\* C28: shutdown stops dispatch.  After the shutdown signal has been handled
\* while a batch is in progress no conversion that had not started is
\* started: a queued candidate is only taken by a pool thread while the
\* daemon is running; and the handling of the signal leaves every
\* conversion that is running where it is.
C28_ShutdownStopsDispatch ==
    [][/\ \A j \in Jobs : (pc[j] = "queued" /\ pc'[j] # "queued") => running
       /\ (running /\ ~running') => (pc' = pc /\ job' = job)]_vars


\* C29: fresh discovery every cycle.  Each cycle of the daemon loop obtains
\* its candidate list by a new discovery through the transport: a cycle
\* goes from its scan to process_batch only in a step that calls
\* discover_videos, so the list handed to process_batch is never one that
\* an earlier cycle discovered.
C29_FreshDiscovery ==
    [][(run_pc = "scan" /\ run_pc' = "process_batch") =>
           discoveries' = discoveries + 1]_vars


(***************************************************************************)
(* The locks.  Every "with lock:" block of the coordinator (thread 0), of  *)
(* the pool threads and of the signal handler is an acquisition and a      *)
(* release; threading.Lock is not reentrant.  A thread at a label has      *)
(* either not yet acquired the lock of that label or holds it.             *)
(***************************************************************************)
\* The lock taken at each position: _converting_lock (lines 673, 718, 782,
\* 884, 904, 1040), _processed_lock (lines 861, 1020 for the commit, 461 for
\* the save), SFTPConnection._lock (sftp_ops.py line 164, ensure_connected
\* of discovery, of the probes of should_process and of the transfers).
Wants(label) ==
    CASE label \in {"filter", "claim", "release"} -> "converting"
      [] label \in {"commit", "save"} -> "processed"
      [] label \in {"discover", "probe", "download", "upload"} -> "conn"
      [] OTHER -> "none"

Holder(lock) ==
    CASE lock = "converting" -> converting_lock
      [] lock = "processed" -> processed_lock
      [] lock = "conn" -> conn_lock
      [] OTHER -> 0

SetHolder(lock, v) ==
    /\ converting_lock' = IF lock = "converting" THEN v ELSE converting_lock
    /\ processed_lock' = IF lock = "processed" THEN v ELSE processed_lock
    /\ conn_lock' = IF lock = "conn" THEN v ELSE conn_lock

\* The signal handler runs on the main thread, which does nothing else
\* until the handler returns.
InHandler == handler_pc \in {"disconnect", "disconnect_locked"}
Suspended(t) == t = 0 /\ InHandler

\* Thread t is inside the "with" block of its position.
Holding(t) ==
    /\ Wants(pc[t]) # "none"
    /\ Holder(Wants(pc[t])) = t + 1
    /\ t = 0 => handler_pc # "disconnect_locked"

\* The position after the "with" block of a label.
After(label) ==
    CASE label = "discover" -> "filter"
      [] label = "filter" -> IF remote_mode THEN "probe" ELSE "submit"
      [] label = "probe" -> "submit"
      [] label = "claim" -> IF remote_mode THEN "download" ELSE "commit"
      [] label = "download" -> "upload"
      [] label = "upload" -> "commit"
      [] label = "commit" -> "save"
      [] label = "save" -> "release"
      [] OTHER -> "returned"

\* First position of a scan cycle: remote discovery connects first.
CycleStart == IF remote_mode THEN "discover" ELSE "filter"

lockFrame == <<configVars, ledgerVars, converting, diskVars, clock, fs, work, job,
               stop_outputs, batches, boots, call, directories, resolved_allowed_dirs,
               tree, run_pc, cycles, discovery_cache, discoveries, sleep_elapsed, slept,
               channel_timeout, xfer, remote_files, ssh_handle, sftp_handle>>

InitLocks ==
    /\ InitCommon
    /\ db_file = Absent
    /\ remote_mode \in BOOLEAN
    /\ dry_run = FALSE
    /\ keep_original = TRUE
    /\ max_workers \in 1..MaxWorkers
    /\ fs = [p \in AllPaths |-> Missing]

\* The daemon is constructed and run() enters the loop.
LoopStart ==
    /\ pc[0] = "down"
    /\ pc' = [pc EXCEPT ![0] = CycleStart]
    /\ UNCHANGED <<lockFrame, running, handler_pc, converting_lock, processed_lock, conn_lock>>

\* Thread t enters the "with" block of its position.
LockAcquire(t) ==
    /\ Wants(pc[t]) # "none"
    /\ ~Suspended(t)
    /\ ~Holding(t)
    /\ Holder(Wants(pc[t])) = 0
    /\ SetHolder(Wants(pc[t]), t + 1)
    /\ UNCHANGED <<lockFrame, running, handler_pc, pc>>

\* Thread t leaves the "with" block, normally or by an exception; an
\* exception in a pool thread leads to the finally block of convert_video.
LockRelease(t) ==
    /\ Holding(t)
    /\ ~Suspended(t)
    /\ SetHolder(Wants(pc[t]), 0)
    /\ \E raised \in BOOLEAN :
          /\ raised => pc[t] \in {"download", "upload", "commit", "save"}
          /\ pc' = [pc EXCEPT ![t] = IF raised THEN "release" ELSE After(pc[t])]
    /\ UNCHANGED <<lockFrame, running, handler_pc>>

\* process_batch submits n eligible candidates, lines 1086-1088.
Submit ==
    /\ pc[0] = "submit"
    /\ ~Suspended(0)
    /\ \E n \in 0..MaxBatchLen :
          pc' = [t \in Threads |-> IF t = 0 THEN "batch"
                                   ELSE IF t <= n THEN "queued" ELSE "none"]
    /\ UNCHANGED <<lockFrame, running, handler_pc, converting_lock, processed_lock, conn_lock>>

\* A pool thread takes a queued candidate.
Dispatch(j) ==
    /\ pc[j] = "queued"
    /\ Cardinality({k \in Jobs : pc[k] \notin {"none", "queued", "returned"}}) < max_workers
    /\ pc' = [pc EXCEPT ![j] = "claim"]
    /\ UNCHANGED <<lockFrame, running, handler_pc, converting_lock, processed_lock, conn_lock>>

\* Every future has completed, lines 1090-1099; the loop goes on while the
\* running flag is set, line 1120.
BatchEnd ==
    /\ pc[0] = "batch"
    /\ ~Suspended(0)
    /\ \A j \in Jobs : pc[j] \in {"none", "returned"}
    /\ pc' = [t \in Threads |-> IF t = 0
                                 THEN IF running THEN CycleStart ELSE "stopped"
                                 ELSE "none"]
    /\ UNCHANGED <<lockFrame, running, handler_pc, converting_lock, processed_lock, conn_lock>>

\* handle_shutdown, lines 482-490, entered on the main thread wherever it
\* stands: the flag is cleared and, with an SFTP connection object,
\* disconnect() is called.
Signal ==
    /\ handler_pc = "none"
    /\ pc[0] \notin {"down", "stopped"}
    /\ running' = FALSE
    /\ handler_pc' = IF remote_mode THEN "disconnect" ELSE "done"
    /\ UNCHANGED <<lockFrame, pc, converting_lock, processed_lock, conn_lock>>

\* disconnect(), sftp_ops.py lines 138-141: "with self._lock".
HandlerAcquire ==
    /\ handler_pc = "disconnect"
    /\ conn_lock = 0
    /\ conn_lock' = 1
    /\ handler_pc' = "disconnect_locked"
    /\ UNCHANGED <<lockFrame, running, pc, converting_lock, processed_lock>>

HandlerRelease ==
    /\ handler_pc = "disconnect_locked"
    /\ conn_lock' = 0
    /\ handler_pc' = "done"
    /\ UNCHANGED <<lockFrame, running, pc, converting_lock, processed_lock>>

NextLocks ==
    \/ LoopStart
    \/ \E t \in Threads : LockAcquire(t)
    \/ \E t \in Threads : LockRelease(t)
    \/ Submit
    \/ \E j \in Jobs : Dispatch(j)
    \/ BatchEnd
    \/ Signal
    \/ HandlerAcquire
    \/ HandlerRelease

SpecLocks == InitLocks /\ [][NextLocks]_vars

(***************************************************************************)
(* The shared SFTP connection: the coordinator and the pool threads call   *)
(* ensure_connected() and disconnect() on one SFTPConnection object.  The  *)
(* server may drop the connection at any time; that shows as a failing     *)
(* probe.                                                                  *)
(***************************************************************************)
connFrame == <<configVars, ledgerVars, converting, processed_lock, diskVars, clock, pipeVars,
               boots, directories, resolved_allowed_dirs, tree, runVars, channel_timeout,
               xfer, remote_files, converting_lock, handler_pc>>

\* The label of a thread that is in no call on the connection.
Outside(t) == IF t = 0 THEN "idle" ELSE "none"

\* The call in progress: its thread, the connection attempts it has made,
\* whether its probe failed, and how it ended.
Ensuring(t, attempts, probe_failed, outcome) ==
    Called("ensure_connected", <<t>>,
           [attempts |-> attempts, probe_failed |-> probe_failed, outcome |-> outcome])

\* Mutation of cleanup_locked: the SSH client is kept.
cleanup_locked_KeepsSsh == [ssh |-> ssh_handle, sftp |-> "none"]

\* _cleanup_locked, sftp_ops.py lines 143-156: both handles are closed (an
\* exception of close is swallowed) and set to None.
cleanup_locked == [ssh |-> "none", sftp |-> "none"]

InitConnection ==
    /\ InitIdle
    /\ InitSftp
    /\ remote_mode = TRUE
    /\ directories = <<RemoteM>>
    /\ resolved_allowed_dirs = <<>>
    /\ tree = NoTree

\* ensure_connected, line 164: the lock is taken.
EnsureEnter(t) ==
    /\ pc[t] = Outside(t)
    /\ conn_lock = 0
    /\ conn_lock' = t + 1
    /\ pc' = [pc EXCEPT ![t] = "probe"]
    /\ call' = Ensuring(t, 0, FALSE, "running")
    /\ UNCHANGED <<connFrame, ssh_handle, sftp_handle>>

\* Lines 165-172: with a client, normalize('.') is tried; the call returns
\* when it succeeds, and cleans up when it raises.
EnsureProbe(t) ==
    /\ pc[t] = "probe"
    /\ IF sftp_handle = "none"
       THEN /\ pc' = [pc EXCEPT ![t] = "connect"]
            /\ UNCHANGED <<call, ssh_handle, sftp_handle, conn_lock>>
       ELSE \E alive \in BOOLEAN :
               IF alive
               THEN /\ pc' = [pc EXCEPT ![t] = "returned"]
                    /\ call' = Ensuring(t, call.result.attempts, FALSE, "returned")
                    /\ conn_lock' = 0
                    /\ UNCHANGED <<ssh_handle, sftp_handle>>
               ELSE /\ pc' = [pc EXCEPT ![t] = "connect"]
                    /\ call' = Ensuring(t, call.result.attempts, TRUE, "running")
                    /\ ssh_handle' = cleanup_locked.ssh
                    /\ sftp_handle' = cleanup_locked.sftp
                    /\ UNCHANGED conn_lock
    /\ UNCHANGED connFrame

\* _connect_locked, lines 113-114: a new SSH client object is stored.
ConnectBegin(t) ==
    /\ pc[t] = "connect"
    /\ ssh_handle' = "client"
    /\ pc' = [pc EXCEPT ![t] = "opening"]
    /\ call' = Ensuring(t, call.result.attempts + 1, call.result.probe_failed, "running")
    /\ UNCHANGED <<connFrame, sftp_handle, conn_lock>>

\* _connect_locked, lines 129-136: connect() and open_sftp() succeed, or
\* either raises, the handles are cleaned up and SFTPConnectionError leaves
\* ensure_connected; the lock is released.
ConnectEnd(t) ==
    /\ pc[t] = "opening"
    /\ \E outcome \in {"ok", "connect_raised", "open_sftp_raised"} :
          IF outcome = "ok"
          THEN /\ sftp_handle' = "client"
               /\ call' = Ensuring(t, call.result.attempts, call.result.probe_failed,
                                    "returned")
               /\ pc' = [pc EXCEPT ![t] = "returned"]
               /\ UNCHANGED ssh_handle
          ELSE /\ ssh_handle' = cleanup_locked.ssh
               /\ sftp_handle' = cleanup_locked.sftp
               /\ call' = Ensuring(t, call.result.attempts, call.result.probe_failed,
                                    "SFTPConnectionError")
               /\ pc' = [pc EXCEPT ![t] = "raised"]
    /\ conn_lock' = 0
    /\ UNCHANGED connFrame

\* The caller goes on after the return or the exception of its call.
CallerResumes(t) ==
    /\ pc[t] \in {"returned", "raised"}
    /\ pc' = [pc EXCEPT ![t] = Outside(t)]
    /\ UNCHANGED <<connFrame, call, ssh_handle, sftp_handle, conn_lock>>

\* disconnect(), lines 138-141.
Disconnect(t) ==
    /\ pc[t] = Outside(t)
    /\ conn_lock = 0
    /\ ssh_handle' = cleanup_locked.ssh
    /\ sftp_handle' = cleanup_locked.sftp
    /\ UNCHANGED <<connFrame, pc, call, conn_lock>>

NextConnection ==
    \/ \E t \in Threads : EnsureEnter(t)
    \/ \E t \in Threads : EnsureProbe(t)
    \/ \E t \in Threads : ConnectBegin(t)
    \/ \E t \in Threads : ConnectEnd(t)
    \/ \E t \in Threads : CallerResumes(t)
    \/ \E t \in Threads : Disconnect(t)

SpecConnection == InitConnection /\ [][NextConnection]_vars

(***************************************************************************)
(* The sleep phase of run() on its own, for scan intervals from the        *)
(* smallest admitted value upwards, with a shutdown signal at any moment.  *)
(***************************************************************************)
MaxScanExtra == 7
ScanIntervals == MIN_SCAN_INTERVAL..(MIN_SCAN_INTERVAL + MaxScanExtra)

sleepFrame == <<configVars, ledgerVars, converting, processed_lock, diskVars, clock, pc,
                pipeVars, boots, directories, resolved_allowed_dirs, tree, sftpVars,
                cycles, discovery_cache, discoveries>>

\* The sleep phase in progress: the configured scan_interval, the seconds
\* slept so far, and the increments completed after the signal was handled.
Sleeping(interval, total, after_signal) ==
    Called("sleep", <<interval>>, [total |-> total, after_signal |-> after_signal])

\* Mutation of sleep_seconds: every increment is a full step.
sleep_seconds_FullStep(interval, elapsed) == SLEEP_STEP

\* Line 1150: the argument of time.sleep.
sleep_seconds(interval, elapsed) == Min(SLEEP_STEP, interval - elapsed)

InitSleep ==
    /\ InitIdle
    /\ InitSftp
    /\ remote_mode = FALSE
    /\ directories = <<>>
    /\ resolved_allowed_dirs = <<>>
    /\ tree = NoTree

\* Lines 1143-1148: the cycle is complete and the sleep phase begins.
SleepBegins ==
    /\ run_pc = "none"
    /\ run_pc' = "sleep"
    /\ sleep_elapsed' = 0
    /\ \E interval \in ScanIntervals : call' = Sleeping(interval, 0, 0)
    /\ UNCHANGED <<sleepFrame, running, slept>>

\* Line 1149: the test of the sleep loop.
SleepTest ==
    /\ run_pc = "sleep"
    /\ run_pc' = IF sleep_elapsed < call.args[1] /\ running THEN "sleeping" ELSE "while"
    /\ UNCHANGED <<sleepFrame, running, slept, sleep_elapsed, call>>

\* Lines 1150-1151: time.sleep returns after the whole increment (a signal
\* handled meanwhile does not shorten it) and sleep_elapsed grows by 5.
SleepIncrement ==
    /\ run_pc = "sleeping"
    /\ slept' = sleep_seconds(call.args[1], sleep_elapsed)
    /\ sleep_elapsed' = sleep_elapsed + SLEEP_STEP
    /\ call' = Sleeping(call.args[1], call.result.total + slept',
                        call.result.after_signal + IF running THEN 0 ELSE 1)
    /\ run_pc' = "sleep"
    /\ UNCHANGED <<sleepFrame, running>>

NextSleep ==
    \/ SleepBegins
    \/ SleepTest
    \/ SleepIncrement
    \/ HandleShutdown

SpecSleep == InitSleep /\ [][NextSleep]_vars

(***************************************************************************)
(* Properties of the outputs and of the originals                          *)
(***************************************************************************)
\* The output of job j is put at its final path in this step.
Publishes(j) == pc[j] = "finalize" /\ pc'[j] = "post"

\* C31: no output is overwritten.  Whenever a conversion moves (local) or
\* publishes (remote) its output to the final sibling path, no file exists
\* at that path at that moment; this holds for a batch of two eligible
\* candidates that share directory and stem and differ in extension.
C31_NoOutputOverwritten ==
    [][\A j \in Jobs :
          Publishes(j) => fs[with_suffix(job[j].path, "m4v")] = Missing]_vars

\* The sources of the sibling batches.
SourcePaths == {PathA, PathAmp4}

\* Job j deletes its original in this step, lines 1010-1016 / 851-857.
DeletesOriginal(j, p) ==
    /\ job[j].path = p
    /\ pc[j] = "post"
    /\ pc'[j] = "commit"
    /\ fs'[p] = Missing

\* C32: the original is never lost.  A source file changes on disk only by
\* being deleted, only when keep_original is false, and only by an attempt
\* on that file whose converted output has been put at the final path; with
\* keep_original true, or in an attempt that failed at an earlier step, no
\* step of the pipeline deletes or replaces the source.
C32_OriginalNeverLost ==
    [][\A p \in SourcePaths :
          fs'[p] # fs[p] =>
             /\ ~keep_original
             /\ fs[with_suffix(p, "m4v")] # Missing
             /\ \E j \in Jobs : DeletesOriginal(j, p)]_vars

\* Both siblings were converted and deleted, their output is on disk.
C32_Witness ==
    /\ ~keep_original
    /\ \A p \in SourcePaths : fs[p] = Missing
    /\ fs[with_suffix(PathA, "m4v")] # Missing
    /\ \E j \in Jobs : pc[j] = "returned" /\ job[j].result = "Success"

\* The coordinator stands before an evaluation of should_process: the test
\* of the cached list (line 1129) or the filter of process_batch (line
\* 1076).
AtEligibilityDecision == pc[0] = "idle" /\ run_pc \in {"scan", "process_batch"}

\* C33: whenever the coordinator evaluates should_process, in the filter of
\* the batch or in the test of the cached discovery, the in-flight set is
\* empty: every worker of the previous batch has finished and released.
C33_IdleAtEligibility == AtEligibilityDecision => converting = {}

\* The filter of a later batch is about to run after a batch whose
\* conversion was committed.
C33_Witness ==
    /\ AtEligibilityDecision
    /\ run_pc = "process_batch"
    /\ batches >= 1
    /\ processed_files # {}
    /\ discovery_cache # <<>>

\* The regular files of the tree that resolve inside the root /w.
FilesUnderLateRoot ==
    {f \in {FileW, FileWb} : is_file(f) /\ relative_to(Resolve(f), Resolve(RootW))}

\* C34: a configured local root that did not exist when the daemon started
\* and exists at a later scan is served like any other root: the files that
\* resolve inside it are returned by discovery (unless the discovery cap
\* ended the scan) and pass the re-validation of the pipeline, whether or
\* not other configured roots existed at startup.
C34_LateRootServed ==
    (call.fn = "discover_videos" /\ tree[RootW] = Directory) =>
       \A f \in FilesUnderLateRoot :
          /\ is_safe_path(f, directories)
          /\ \/ \E i \in DOMAIN call.result : call.result[i] = f
             \/ Len(call.result) >= MAX_DISCOVERED_FILES

\* convert_video has been called for the new file.
Attempted == call.fn = "convert_video"

\* C35: progress.  While the daemon keeps running, a file that appears
\* under a configured root and stays eligible is eventually discovered and
\* has a conversion attempted, whatever the discovery cache holds when it
\* appears.
C35_Progress == is_file(NewFile) ~> Attempted

\* Thread t stands before a "with" block whose lock is held.
WaitsForLock(t) ==
    \/ /\ ~Suspended(t)
       /\ Wants(pc[t]) # "none"
       /\ ~Holding(t)
       /\ Holder(Wants(pc[t])) # 0
    \/ /\ t = 0
       /\ handler_pc = "disconnect"
       /\ conn_lock # 0

\* Thread t asks for a lock that it holds itself.
ReacquiresOwnLock(t) ==
    /\ t = 0
    /\ handler_pc = "disconnect"
    /\ conn_lock = 1

\* Thread t holds the in-flight lock and the ledger lock together.
HoldsBothLocks(t) == converting_lock = t + 1 /\ processed_lock = t + 1

\* The threads that exist: the coordinator and the pool threads at work.
LiveThreads == {0} \cup {j \in Jobs : pc[j] \notin {"none", "queued", "returned"}}

\* C36: deadlock freedom.  No thread holds the in-flight lock and the ledger
\* lock at the same time, no thread asks for a lock it already holds, and
\* no state is reached in which every thread waits for a lock.
C36_DeadlockFreedom ==
    /\ \A t \in Threads : ~HoldsBothLocks(t)
    /\ \A t \in Threads : ~ReacquiresOwnLock(t)
    /\ \E t \in LiveThreads : ~WaitsForLock(t)

\* The name of a returned file starts with a dot: the last segment of a
\* local name, the last component of a remote path.
HiddenName(path) ==
    IF remote_mode
    THEN \E i \in DOMAIN path :
            /\ path[i] = "."
            /\ i > 1 /\ path[i - 1] = "/"
            /\ \A k \in (i + 1)..Len(path) : path[k] # "/"
    ELSE path[Len(path)] = ".a.mkv"

\* C37: hidden-entry skip.  In both transports discovery never returns a
\* file whose name starts with a dot.
C37_HiddenSkipped ==
    call.fn = "discover_videos" =>
       \A i \in DOMAIN call.result : ~HiddenName(call.result[i])

\* A call of ensure_connected ends in this step, with the given outcome.
EnsureEnds(outcome) ==
    /\ call.fn = "ensure_connected"
    /\ call.result.outcome = "running"
    /\ call'.result.outcome = outcome

\* C38: reconnect once.  A call of ensure_connected makes at most one
\* connection attempt; when it returns normally the SFTP client is set,
\* when it raises SFTPConnectionError both handles are cleared, and
\* whenever no call holds the connection lock the connection is not
\* half-open: the two handles are both set or both cleared.
C38_ReconnectOnce ==
    /\ [](call.fn = "ensure_connected" => call.result.attempts <= 1)
    /\ [](conn_lock = 0 => (ssh_handle = "none" <=> sftp_handle = "none"))
    /\ [][/\ EnsureEnds("returned") =>
              sftp_handle' = "client" /\ ssh_handle' = "client"
          /\ EnsureEnds("SFTPConnectionError") =>
              sftp_handle' = "none" /\ ssh_handle' = "none"]_vars

\* A call found the connection dead, reconnected once and returned; the
\* connection is open.
C38_Witness ==
    /\ call.fn = "ensure_connected"
    /\ call.result.outcome = "returned"
    /\ call.result.probe_failed
    /\ call.result.attempts = 1
    /\ sftp_handle = "client"
    /\ conn_lock = 0

\* The sleep loop is left in this step.
SleepEnds == run_pc = "sleep" /\ run_pc' = "while"

\* C39: interruptible sleep.  Every increment of the sleep phase lasts at
\* most 5 seconds and the running flag is tested after each; once a
\* shutdown signal has been handled at most one more increment elapses
\* before the loop is left; a sleep phase that is not interrupted lasts
\* exactly scan_interval seconds, for every scan_interval from 30 upwards,
\* multiple of 5 or not.
C39_InterruptibleSleep ==
    /\ [](call.fn = "sleep" => slept <= SLEEP_STEP /\ call.result.after_signal <= 1)
    /\ [][/\ (run_pc = "sleep" /\ ~running) => run_pc' # "sleeping"
          /\ (SleepEnds /\ running) => call.result.total = call.args[1]]_vars

\* An uninterrupted sleep phase of 32 seconds has ended.
C39_Witness ==
    /\ run_pc = "while"
    /\ running
    /\ call.fn = "sleep"
    /\ call.args = <<MIN_SCAN_INTERVAL + 2>>
    /\ call.result.total = MIN_SCAN_INTERVAL + 2
    /\ slept = 2

\* The entry of identity h in a stored mapping.
EntryOf(file, h) ==
    LET i == CHOOSE i \in DOMAIN file.doc.members : file.doc.members[i].k = h
    IN file.doc.members[i].v

\* The identities whose entry in the stored mapping carries a timestamp.
TimedKeys(file) == {h \in Keys(file) : IsTimingMetadata(JsonToPy(EntryOf(file, h)))}

\* C40: ledger entries are immutable.  Once an identity has an entry with a
\* timestamp in the ledger file, every later save, in the same run or after
\* a restart, writes the same timestamp and duration for it; this includes
\* the identities loaded from a legacy flat array, whose timestamp was
\* synthesized by the first save.
C40_LedgerEntriesImmutable ==
    [][db_file' # db_file =>
          \A h \in TimedKeys(db_file) \cap Keys(db_file') :
             EntryOf(db_file', h) = EntryOf(db_file, h)]_vars

====
